---- MODULE Spec2Model ----
(***************************************************************************)
(* A model of the compiler toolchain of rosetta_code: the lexical          *)
(* analyzer, the token and AST text forms, the syntax analyzer, the code   *)
(* generator, the virtual machine and the AST interpreter.                 *)
(*                                                                         *)
(* Characters are one-character strings; text is a sequence of characters. *)
(***************************************************************************)
EXTENDS Integers, Sequences, FiniteSets, TLC

VARIABLES
    src,            \* the source text handed to LexicalAnalyzer::new
    next_char,      \* LexicalAnalyzer.next_char (None at end of input)
    stream,         \* LexicalAnalyzer.stream: the characters not yet read
    line_number,    \* LexicalAnalyzer.line_number
    column_number,  \* LexicalAnalyzer.column_number
    results,        \* the values returned by the calls of next_token so far
    token,          \* a Token handed to the text form
    token_text,     \* the line printed for token ("{}" of the Token)
    token_read,     \* the value of Token::from_line on token_text
    tree,           \* an ASTNode handed to the text form
    tree_text,      \* the pre-order text printed for tree ("{}" of the ASTNode)
    tree_read,      \* the value of ASTReader::read_ast on the lines of tree_text
    program,        \* the source text handed to the toolchain
    overflow_checks, \* whether the build panics on arithmetic overflow
    stage,          \* how far the toolchain has come with program
    scanned,        \* the tokens of program (create_tokens)
    parsed,         \* the value of SyntaxAnalyzer::parse on the tokens
    interpreted,    \* how ASTInterpreter::interpret ended, and what it wrote
    generated,      \* the value of CodeGenerator::generate on the tree
    pc,             \* VirtualMachineInterpreter.pc
    sp,             \* VirtualMachineInterpreter.sp
    byte_code,      \* VirtualMachineInterpreter.byte_code
    string_pool,    \* VirtualMachineInterpreter.string_pool
    data,           \* VirtualMachineInterpreter.data
    stack,          \* VirtualMachineInterpreter.stack, the slots below sp
    vm_status,      \* "running", or how VirtualMachineInterpreter::interpret ended
    out,            \* the bytes the virtual machine has written to out
    steps,          \* the number of turns of the loop of execute so far
    executed        \* the instruction of the last turn of that loop

lexvars == <<src, next_char, stream, line_number, column_number, results>>

tokvars == <<token, token_text, token_read>>

astvars == <<tree, tree_text, tree_read>>

vmvars == <<pc, sp, byte_code, string_pool, data, stack, vm_status, out, steps, executed>>

pipevars ==
    <<program, overflow_checks, stage, scanned, parsed, interpreted, generated, vmvars>>

vars == <<lexvars, tokvars, astvars, pipevars>>

----------------------------------------------------------------------------
(* Characters *)

None == "None"
NL == "\n"
TAB == "\t"
SP == " "
DQ == "\""
SQ == "'"
BSL == "\\"

Digits == {"0", "1", "2", "3", "4", "5", "6", "7", "8", "9"}

Whitespace == {SP, NL, TAB}

\* u+00e9, a letter outside the ASCII range
EACUTE == "e'"

AsciiLetters == {"a", "b", "c", "e", "f", "h", "i", "l", "n", "p", "r", "s",
                 "t", "u", "w", "x", "y", "A"}

\* c.is_digit(10)
is_number(c) == c \in Digits

\* c == '_' || ('a' <= c <= 'z') || ('A' <= c <= 'Z')
is_alpha(c) == c = "_" \/ c \in AsciiLetters

is_alnum(c) == is_alpha(c) \/ is_number(c)

\* char::is_alphabetic
is_alphabetic(c) == c \in AsciiLetters \/ c = EACUTE

\* char::is_whitespace
is_whitespace(c) == c \in Whitespace

DigitVal(c) ==
    CASE c = "0" -> 0 [] c = "1" -> 1 [] c = "2" -> 2 [] c = "3" -> 3
      [] c = "4" -> 4 [] c = "5" -> 5 [] c = "6" -> 6 [] c = "7" -> 7
      [] c = "8" -> 8 [] c = "9" -> 9

DigitChar(d) ==
    CASE d = 0 -> "0" [] d = 1 -> "1" [] d = 2 -> "2" [] d = 3 -> "3"
      [] d = 4 -> "4" [] d = 5 -> "5" [] d = 6 -> "6" [] d = 7 -> "7"
      [] d = 8 -> "8" [] d = 9 -> "9"

\* the code point of a character (c as i32, c as u32)
CodePoint(c) ==
    CASE c = TAB -> 9 [] c = NL -> 10 [] c = SP -> 32 [] c = "!" -> 33
      [] c = DQ -> 34 [] c = "%" -> 37 [] c = "&" -> 38 [] c = SQ -> 39
      [] c = "(" -> 40 [] c = ")" -> 41 [] c = "*" -> 42 [] c = "+" -> 43
      [] c = "," -> 44 [] c = "-" -> 45 [] c = "/" -> 47
      [] c \in Digits -> 48 + DigitVal(c)
      [] c = ":" -> 58 [] c = ";" -> 59 [] c = "<" -> 60 [] c = "=" -> 61
      [] c = ">" -> 62 [] c = "A" -> 65 [] c = "T" -> 84 [] c = "[" -> 91
      [] c = BSL -> 92 [] c = "]" -> 93 [] c = "_" -> 95
      [] c = "a" -> 97 [] c = "b" -> 98 [] c = "c" -> 99 [] c = "d" -> 100
      [] c = "e" -> 101 [] c = "f" -> 102 [] c = "h" -> 104 [] c = "i" -> 105
      [] c = "l" -> 108 [] c = "m" -> 109 [] c = "n" -> 110 [] c = "o" -> 111
      [] c = "p" -> 112 [] c = "r" -> 114 [] c = "s" -> 115
      [] c = "t" -> 116 [] c = "u" -> 117 [] c = "w" -> 119 [] c = "x" -> 120
      [] c = "y" -> 121 [] c = "{" -> 123 [] c = "|" -> 124 [] c = "}" -> 125
      [] c = EACUTE -> 233

\* the code points of a text
RECURSIVE CodePoints(_)
CodePoints(s) ==
    IF s = <<>> THEN <<>> ELSE <<CodePoint(Head(s))>> \o CodePoints(Tail(s))

----------------------------------------------------------------------------
(* Integers of 32 bits *)

I32Max == 2147483647
I32Min == (0 - I32Max) - 1

\* the digits of s as a number: -1 when s holds a character that is no
\* digit, -2 when the number does not fit 31 bits
RECURSIVE DigitsValue(_, _)
DigitsValue(s, acc) ==
    IF s = <<>> THEN acc
    ELSE IF Head(s) \notin Digits THEN -1
    ELSE IF acc > 214748364 \/ (acc = 214748364 /\ DigitVal(Head(s)) > 7)
         THEN -2
    ELSE DigitsValue(Tail(s), acc * 10 + DigitVal(Head(s)))

\* str::parse::<i32>: decimal digits with an optional sign
ParseI32(s) ==
    LET neg == s # <<>> /\ Head(s) = "-"
        body == IF s # <<>> /\ Head(s) \in {"-", "+"} THEN Tail(s) ELSE s
        v == IF body = <<>> THEN -1 ELSE DigitsValue(body, 0)
    IN  IF neg /\ body = <<"2", "1", "4", "7", "4", "8", "3", "6", "4", "8">>
        THEN [ok |-> TRUE, value |-> I32Min]
        ELSE IF v < 0 THEN [ok |-> FALSE, value |-> 0]
        ELSE [ok |-> TRUE, value |-> IF neg THEN 0 - v ELSE v]

\* str::parse::<usize>: decimal digits (no minus sign)
ParseUsize(s) ==
    LET body == IF s # <<>> /\ Head(s) = "+" THEN Tail(s) ELSE s
        v == IF body = <<>> THEN -1 ELSE DigitsValue(body, 0)
    IN  IF v < 0 THEN [ok |-> FALSE, value |-> 0] ELSE [ok |-> TRUE, value |-> v]

\* the decimal text of an integer ("{}" of an integer type)
RECURSIVE NatText(_)
NatText(n) ==
    IF n < 10 THEN <<DigitChar(n)>>
    ELSE NatText(n \div 10) \o <<DigitChar(n % 10)>>

IntText(n) ==
    IF n = I32Min THEN <<"-", "2", "1", "4", "7", "4", "8", "3", "6", "4", "8">>
    ELSE IF n < 0 THEN <<"-">> \o NatText(0 - n) ELSE NatText(n)

----------------------------------------------------------------------------
(* The lexical analyzer: src/lexical_analyzer/src/lib.rs *)

\* Chars::next on the remaining characters
StreamNext(st) == IF st = <<>> THEN None ELSE Head(st)
StreamRest(st) == IF st = <<>> THEN <<>> ELSE Tail(st)

\* LexicalAnalyzer::new
LexNew(s) ==
    [next_char |-> StreamNext(s), stream |-> StreamRest(s),
     line_number |-> 1, column_number |-> 1]

\* read_char that restarts the column at 1 when it reads past a newline
read_char_no_reset(L) ==
    LET nl == L.next_char = NL
    IN  [next_char |-> StreamNext(L.stream),
         stream |-> StreamRest(L.stream),
         line_number |-> IF nl THEN L.line_number + 1 ELSE L.line_number,
         column_number |-> (IF nl THEN 1 ELSE L.column_number) + 1]

\* LexicalAnalyzer::read_char
read_char(L) ==
    LET nl == L.next_char = NL
    IN  [next_char |-> StreamNext(L.stream),
         stream |-> StreamRest(L.stream),
         line_number |-> IF nl THEN L.line_number + 1 ELSE L.line_number,
         column_number |-> (IF nl THEN 0 ELSE L.column_number) + 1]

\* Token::new
Token(kind, text, value, line, column) ==
    [kind |-> kind, text |-> text, value |-> value,
     line_number |-> line, column_number |-> column]

NoToken == Token("", <<>>, 0, 0, 0)

\* Result<Token> together with the lexer the call leaves behind; rem is
\* the number of characters that were unread (look-ahead included) when the
\* call dispatched on the first character of the token
Ok(L, t) == [lex |-> L, ok |-> TRUE, token |-> t, err |-> "", rem |-> -1]
Err(L, msg) == [lex |-> L, ok |-> FALSE, token |-> NoToken, err |-> msg, rem |-> -1]

Unread(L) == Len(L.stream) + (IF L.next_char = None THEN 0 ELSE 1)

\* LexicalAnalyzer::read_escaped_sequence: the lexer after read_char and
\* the decoded character, or the error
read_escaped_sequence(L) ==
    LET L1 == read_char(L)
    IN  CASE L1.next_char = BSL -> [lex |-> L1, ok |-> TRUE, c |-> BSL, err |-> ""]
          [] L1.next_char = "n" -> [lex |-> L1, ok |-> TRUE, c |-> NL, err |-> ""]
          [] L1.next_char = None ->
                [lex |-> L1, ok |-> FALSE, c |-> None, err |-> "unexpected EOI"]
          [] OTHER ->
                [lex |-> L1, ok |-> FALSE, c |-> None, err |-> "Unknown escape sequence"]

\* discard_whitespace as a do-while loop: it reads once more at the end of
\* the input
RECURSIVE discard_whitespace_past_end(_)
discard_whitespace_past_end(L) ==
    IF L.next_char = None THEN read_char(L)
    ELSE IF is_whitespace(L.next_char)
    THEN discard_whitespace_past_end(read_char(L))
    ELSE L

\* LexicalAnalyzer::discard_whitespace
RECURSIVE discard_whitespace(_)
discard_whitespace(L) ==
    IF L.next_char # None /\ is_whitespace(L.next_char)
    THEN discard_whitespace(read_char(L))
    ELSE L

\* LexicalAnalyzer::discard_comment: the lexer after the comment, and
\* whether the comment was closed
RECURSIVE discard_comment(_)
discard_comment(L) ==
    IF L.next_char = None THEN [lex |-> L, ok |-> FALSE]
    ELSE IF L.next_char = "*"
    THEN LET L1 == read_char(L)
         IN  IF L1.next_char = "/" THEN [lex |-> read_char(L1), ok |-> TRUE]
             ELSE IF L1.next_char = None THEN [lex |-> L1, ok |-> FALSE]
             ELSE discard_comment(read_char(L1))
    ELSE discard_comment(read_char(L))

\* the same, leaving the '=' of a two-character token unread
ReadOneOrTwoKeepSecond(L, one, two, line, column) ==
    LET L1 == read_char(L)
    IN  IF L1.next_char = "="
        THEN Ok(L1, Token(two, <<>>, 0, line, column))
        ELSE Ok(L1, Token(one, <<>>, 0, line, column))

\* read_less, read_greater, read_equal, read_not: the token is `two` when
\* the next character is '=', `one` otherwise
ReadOneOrTwo(L, one, two, line, column) ==
    LET L1 == read_char(L)
    IN  IF L1.next_char = "="
        THEN Ok(read_char(L1), Token(two, <<>>, 0, line, column))
        ELSE Ok(L1, Token(one, <<>>, 0, line, column))

read_less(L, line, column) == ReadOneOrTwo(L, "OpLess", "OpLessEqual", line, column)
read_greater(L, line, column) ==
    ReadOneOrTwo(L, "OpGreater", "OpGreaterEqual", line, column)
read_equal(L, line, column) == ReadOneOrTwo(L, "OpAssign", "OpEqual", line, column)
read_not(L, line, column) == ReadOneOrTwo(L, "OpNot", "OpNotEqual", line, column)

\* read_and that accepts a single '&'
read_and_single(L, line, column) ==
    LET L1 == read_char(L)
    IN  IF L1.next_char = "&"
        THEN Ok(read_char(L1), Token("OpAnd", <<>>, 0, line, column))
        ELSE Ok(L1, Token("OpAnd", <<>>, 0, line, column))

\* LexicalAnalyzer::read_and
read_and(L, line, column) ==
    LET L1 == read_char(L)
    IN  IF L1.next_char = "&"
        THEN Ok(read_char(L1), Token("OpAnd", <<>>, 0, line, column))
        ELSE Err(L1, "invalid character: '&' is expected")

\* LexicalAnalyzer::read_or
read_or(L, line, column) ==
    LET L1 == read_char(L)
    IN  IF L1.next_char = "|"
        THEN Ok(read_char(L1), Token("OpOr", <<>>, 0, line, column))
        ELSE Err(L1, "invalid character: '|' is expected")

KeywordKind(identifier) ==
    CASE identifier = <<"i", "f">> -> "KeywordIf"
      [] identifier = <<"e", "l", "s", "e">> -> "KeywordElse"
      [] identifier = <<"w", "h", "i", "l", "e">> -> "KeywordWhile"
      [] identifier = <<"p", "r", "i", "n", "t">> -> "KeywordPrint"
      [] identifier = <<"p", "u", "t", "c">> -> "KeywordPutc"
      [] OTHER -> "Identifier"

\* the loop of read_identifier
RECURSIVE IdentifierLoop(_, _)
IdentifierLoop(L, identifier) ==
    IF L.next_char # None /\ is_alnum(L.next_char)
    THEN IdentifierLoop(read_char(L), Append(identifier, L.next_char))
    ELSE [lex |-> L, text |-> identifier]

\* LexicalAnalyzer::read_identifier
read_identifier(L, line, column) ==
    LET r == IdentifierLoop(read_char(L), <<L.next_char>>)
        kind == KeywordKind(r.text)
    IN  Ok(r.lex, Token(kind, IF kind = "Identifier" THEN r.text ELSE <<>>,
                        0, line, column))

\* the loop of read_integer_literal
RECURSIVE IntegerLoop(_, _)
IntegerLoop(L, number_string) ==
    IF L.next_char # None /\ is_number(L.next_char)
    THEN IntegerLoop(read_char(L), Append(number_string, L.next_char))
    ELSE IF L.next_char # None /\ is_alphabetic(L.next_char)
    THEN [lex |-> L, text |-> number_string, ok |-> FALSE]
    ELSE [lex |-> L, text |-> number_string, ok |-> TRUE]

\* LexicalAnalyzer::read_integer_literal
read_integer_literal(L, line, column) ==
    LET r == IntegerLoop(read_char(L), <<L.next_char>>)
        num == ParseI32(r.text)
    IN  IF ~r.ok
        THEN Err(r.lex, "Invalid number. Starts like a number, but ends in non-numeric-characters")
        ELSE IF num.ok
        THEN Ok(r.lex, Token("Integer", <<>>, num.value, line, column))
        ELSE Err(r.lex, "invalid number.")

\* LexicalAnalyzer::read_char_literal
read_char_literal(L, line, column) ==
    LET L1 == read_char(L)
    IN  CASE L1.next_char = SQ -> Err(L1, "Empty character constant")
          [] L1.next_char = NL -> Err(L1, "invalid char literal")
          [] L1.next_char = None -> Err(L1, "unexpected EOI")
          [] OTHER ->
             LET esc == IF L1.next_char = BSL
                        THEN read_escaped_sequence(L1)
                        ELSE [lex |-> L1, ok |-> TRUE, c |-> L1.next_char, err |-> ""]
                 L2 == read_char(esc.lex)
             IN  IF ~esc.ok THEN Err(esc.lex, esc.err)
                 ELSE CASE L2.next_char = SQ ->
                             Ok(read_char(L2),
                                Token("Integer", <<>>, CodePoint(esc.c), line, column))
                        [] L2.next_char = None -> Err(L2, "unexpected EOI")
                        [] OTHER -> Err(L2, "Multi-character constant.")

\* LexicalAnalyzer::read_string_literal, after the opening quote was read
RECURSIVE StringLoop(_, _, _, _)
StringLoop(L, s, line, column) ==
    CASE L.next_char = DQ -> Ok(read_char(L), Token("String", s, 0, line, column))
      [] L.next_char = NL -> Err(L, "End-of-line while scanning string literal")
      [] L.next_char = None -> Err(L, "unexpected EOF")
      [] L.next_char = BSL ->
            LET esc == read_escaped_sequence(L)
            IN  IF esc.ok
                THEN StringLoop(read_char(esc.lex), Append(s, esc.c), line, column)
                ELSE Err(esc.lex, esc.err)
      [] OTHER -> StringLoop(read_char(L), Append(s, L.next_char), line, column)

read_string_literal(L, line, column) == StringLoop(read_char(L), <<>>, line, column)

OneCharKind(c) ==
    CASE c = "*" -> "OpMultiply" [] c = "%" -> "OpMod" [] c = "+" -> "OpAdd"
      [] c = "-" -> "OpSubtract" [] c = "(" -> "LeftParen"
      [] c = ")" -> "RightParen" [] c = "{" -> "LeftBrace"
      [] c = "}" -> "RightBrace" [] c = ";" -> "Semicolon" [] c = "," -> "Comma"

OneChars == {"*", "%", "+", "-", "(", ")", "{", "}", ";", ","}

\* LexicalAnalyzer::next_token, with read_div (which calls next_token again
\* after a comment)
RECURSIVE next_token(_)
next_token(L0) ==
    LET L == discard_whitespace(L0)
        start_line == L.line_number
        start_column == L.column_number
        c == L.next_char
        r == CASE c = None -> Ok(L, Token("EndOfInput", <<>>, 0, start_line, start_column))
               [] c \in OneChars ->
                     Ok(read_char(L), Token(OneCharKind(c), <<>>, 0, start_line, start_column))
               [] c = "<" -> read_less(L, start_line, start_column)
               [] c = ">" -> read_greater(L, start_line, start_column)
               [] c = "=" -> read_equal(L, start_line, start_column)
               [] c = "!" -> read_not(L, start_line, start_column)
               [] c = "&" -> read_and(L, start_line, start_column)
               [] c = "|" -> read_or(L, start_line, start_column)
               [] c = "/" ->
                     \* read_div
                     LET L1 == read_char(L)
                     IN  IF L1.next_char = "*"
                         THEN LET dc == discard_comment(read_char(L1))
                              IN  IF dc.ok THEN next_token(dc.lex)
                                  ELSE Err(dc.lex, "End-of-file in comment. Closing comment characters not found")
                         ELSE Ok(L1, Token("OpDivide", <<>>, 0, start_line, start_column))
               [] is_alpha(c) -> read_identifier(L, start_line, start_column)
               [] is_number(c) -> read_integer_literal(L, start_line, start_column)
               [] c = SQ -> read_char_literal(L, start_line, start_column)
               [] c = DQ -> read_string_literal(L, start_line, start_column)
               [] OTHER -> Err(L, "Unrecognized character")
    IN  IF r.rem = -1 THEN [r EXCEPT !.rem = Unread(L)] ELSE r

----------------------------------------------------------------------------
(* Components that take no part in a specification rest in these states *)

LexIdle ==
    /\ src = <<>>
    /\ next_char = None
    /\ stream = <<>>
    /\ line_number = 1
    /\ column_number = 1
    /\ results = <<>>

TokIdle ==
    /\ token = NoToken
    /\ token_text = <<>>
    /\ token_read = [status |-> "none", token |-> NoToken]

\* an absent child (Option::None)
Nil == [kind |-> "Nil"]

AstIdle ==
    /\ tree = Nil
    /\ tree_text = <<>>
    /\ tree_read = [status |-> "none", node |-> Nil]

\* the values of the toolchain variables before anything has run
NoExecuted == [address |-> -1, opcode |-> -1, condition |-> 0]

VmIdle ==
    /\ pc = 0
    /\ sp = 0
    /\ byte_code = <<>>
    /\ string_pool = <<>>
    /\ data = <<>>
    /\ stack = <<>>
    /\ vm_status = "none"
    /\ out = <<>>
    /\ steps = 0
    /\ executed = NoExecuted

NothingDone ==
    /\ scanned = [ok |-> FALSE, tokens |-> <<>>]
    /\ parsed = [ok |-> FALSE, node |-> Nil, err |-> ""]
    /\ interpreted = [status |-> "none", out |-> <<>>]
    /\ generated = [status |-> "none", err |-> "", instructions |-> <<>>, code |-> <<>>]
    /\ VmIdle

PipeIdle ==
    /\ program = <<>>
    /\ overflow_checks = FALSE
    /\ stage = "idle"
    /\ NothingDone

----------------------------------------------------------------------------
(* Calls of next_token on a source text *)

\* the texts of at most n characters over the alphabet S
Texts(S, n) == UNION {[1..k -> S] : k \in 0..n}

MaxCommentLen == 6
MaxOperatorLen == 4
MaxLiteralLen == 4
MaxCalls == 11

CommentAlphabet == {"/", "*", "a", NL}
OperatorAlphabet == {"<", ">", "=", "!", "&", "|"}
LiteralAlphabet == {"1", "a", "n", SQ, DQ, BSL, SP, TAB, EACUTE}

\* the input of tests::test_two_chars
TwoCharsText ==
    <<"<", "<", "=", ">", ">", "=", "=", "=", "=", "!", "!", "=", "&", "&", "|", "|">>

LexSources ==
    Texts(CommentAlphabet, MaxCommentLen)
        \cup Texts(OperatorAlphabet, MaxOperatorLen)
        \cup Texts(LiteralAlphabet, MaxLiteralLen)
        \cup {TwoCharsText}

Lexer == [next_char |-> next_char, stream |-> stream,
          line_number |-> line_number, column_number |-> column_number]

LexInit ==
    /\ src \in LexSources
    /\ next_char = LexNew(src).next_char
    /\ stream = LexNew(src).stream
    /\ line_number = 1
    /\ column_number = 1
    /\ results = <<>>

\* one call of LexicalAnalyzer::next_token.  The entry added to results
\* holds the returned value and two offsets into src (1-based): at, the
\* first character after the whitespace the call skipped, and first, the
\* character on which the call dispatched after skipping comments as well
\* (Len(src) + 1 stands for the end of input)
NextToken ==
    /\ Len(results) < MaxCalls
    /\ LET r == next_token(Lexer)
       IN  /\ next_char' = r.lex.next_char
           /\ stream' = r.lex.stream
           /\ line_number' = r.lex.line_number
           /\ column_number' = r.lex.column_number
           /\ results' = Append(results,
                  [ok |-> r.ok, token |-> r.token, err |-> r.err,
                   at |-> Len(src) - Unread(discard_whitespace(Lexer)) + 1,
                   first |-> Len(src) - r.rem + 1])
    /\ UNCHANGED src

LexNext == NextToken /\ UNCHANGED <<tokvars, astvars, pipevars>>

InitLex == LexInit /\ TokIdle /\ AstIdle /\ PipeIdle

SpecLex == InitLex /\ [][LexNext]_vars

----------------------------------------------------------------------------
(* Properties of the lexical analyzer *)

\* the line and the column of the k-th character of s
LineOf(s, k) == 1 + Cardinality({j \in 1..(k - 1) : s[j] = NL})

ColumnOf(s, k) ==
    LET nls == {j \in 1..(k - 1) : s[j] = NL}
        last == IF nls = {} THEN 0 ELSE CHOOSE j \in nls : \A i \in nls : i <= j
    IN  k - last

\* the characters a token of the kind can start with
FirstChars(kind) ==
    CASE kind = "OpLess" \/ kind = "OpLessEqual" -> {"<"}
      [] kind = "OpGreater" \/ kind = "OpGreaterEqual" -> {">"}
      [] kind = "OpAssign" \/ kind = "OpEqual" -> {"="}
      [] kind = "OpNot" \/ kind = "OpNotEqual" -> {"!"}
      [] kind = "OpAnd" -> {"&"}
      [] kind = "OpOr" -> {"|"}
      [] kind = "OpDivide" -> {"/"}
      [] kind = "Identifier" -> AsciiLetters \cup {"_"}
      [] kind = "Integer" -> Digits \cup {SQ}
      [] kind = "String" -> {DQ}
      [] kind = "EndOfInput" -> {}
      [] kind \in {"KeywordIf", "KeywordElse", "KeywordWhile", "KeywordPrint",
                   "KeywordPutc"} -> AsciiLetters
      [] OTHER -> {c \in OneChars : OneCharKind(c) = kind}

\* C7: every token returned by next_token carries the 1-based line and
\* column of its first character: the line is 1 + the number of newlines
\* before that character and the column is 1 + the number of characters
\* since the last newline, whitespace and comments counting like any other
\* characters.
C7_TokenPosition ==
    \A i \in 1..Len(results) :
        results[i].ok =>
            LET k == results[i].first
                t == results[i].token
            IN  /\ k \in 1..(Len(src) + 1)
                /\ IF t.kind = "EndOfInput" THEN k = Len(src) + 1
                   ELSE k <= Len(src) /\ src[k] \in FirstChars(t.kind)
                /\ t.line_number = LineOf(src, k)
                /\ t.column_number = ColumnOf(src, k)

\* a token on the second line, after a comment that holds the newline
C7_Witness ==
    /\ Len(src) = 6 /\ src[1] = "/" /\ src[2] = "*" /\ src[3] = NL
    /\ Len(results) >= 1
    /\ results[1].ok
    /\ results[1].token.kind = "Identifier"
    /\ results[1].token.line_number = 2
    /\ results[1].token.column_number = 3

\* the lexer that has read the first k - 1 characters of s
RECURSIVE Advance(_, _)
Advance(L, n) == IF n = 0 THEN L ELSE Advance(read_char(L), n - 1)

LexAt(s, k) == Advance(LexNew(s), k - 1)

\* the index of the first "*/" of s at or after k, 0 when there is none
FirstClose(s, k) ==
    LET closes == {e \in k..(Len(s) - 1) : s[e] = "*" /\ s[e + 1] = "/"}
    IN  IF closes = {} THEN 0 ELSE CHOOSE e \in closes : \A f \in closes : e <= f

StartsComment(s, k) == k + 1 <= Len(s) /\ s[k] = "/" /\ s[k + 1] = "*"

\* C8: after the lexer has read "/*" the comment ends at the first "*/" of
\* the text that follows, whatever the number of '*' before the closing
\* '/': the call returns what a lexer placed right after that "*/" returns.
C8_CommentEndsAtFirstClose ==
    \A i \in 1..Len(results) :
        LET k == results[i].at
            e == FirstClose(src, k + 2)
        IN  (StartsComment(src, k) /\ e # 0) =>
                LET r == next_token(LexAt(src, e + 2))
                IN  /\ results[i].ok = r.ok
                    /\ results[i].token = r.token

\* C9: next_token returns an error, never a token, at the end of the input
\* inside a comment or a string literal, at a '&' not followed by '&', at a
\* '|' not followed by '|', at a character literal without closing quote
\* and at a digit run immediately followed by a letter.
DigitRunEnd(s, k) ==
    LET stops == {j \in k..(Len(s) + 1) : j = Len(s) + 1 \/ s[j] \notin Digits}
    IN  CHOOSE j \in stops : \A i \in stops : j <= i

ErrorCase(s, k) ==
    /\ k <= Len(s)
    /\ \/ StartsComment(s, k) /\ FirstClose(s, k + 2) = 0
       \/ s[k] = DQ /\ \A j \in (k + 1)..Len(s) : s[j] # DQ
       \/ s[k] = "&" /\ (k = Len(s) \/ s[k + 1] # "&")
       \/ s[k] = "|" /\ (k = Len(s) \/ s[k + 1] # "|")
       \/ s[k] = SQ /\ \A j \in (k + 1)..Len(s) : s[j] # SQ
       \/ /\ s[k] \in Digits
          /\ DigitRunEnd(s, k) <= Len(s)
          /\ s[DigitRunEnd(s, k)] \in AsciiLetters \cup {EACUTE}

C9_LexicalErrors ==
    \A i \in 1..Len(results) :
        ErrorCase(src, results[i].first) => ~results[i].ok

\* a lone '&' and then a lone '|' were both answered by an error
C9_Witness ==
    /\ src = <<"&", "|">>
    /\ Len(results) = 2
    /\ ~results[1].ok /\ results[1].first = 1
    /\ ~results[2].ok /\ results[2].first = 2

IsEndOfInput(r) == r.ok /\ r.token.kind = "EndOfInput"

\* C10: once next_token has returned End_of_input, every later call returns
\* End_of_input with the same line and column and leaves the look-ahead,
\* the line and the column of the lexer unchanged.
C10_EndOfInputIsStable ==
    [][(results # <<>> /\ IsEndOfInput(results[Len(results)])) =>
            /\ IsEndOfInput(results'[Len(results')])
            /\ results'[Len(results')].token = results[Len(results)].token
            /\ next_char' = next_char
            /\ stream' = stream
            /\ line_number' = line_number
            /\ column_number' = column_number]_vars

\* End_of_input was returned twice, after a token on the second line
C10_Witness ==
    /\ Len(results) >= 3
    /\ IsEndOfInput(results[Len(results)])
    /\ IsEndOfInput(results[Len(results) - 1])
    /\ results[Len(results)].token.line_number = 2
    /\ results[Len(results)].token.column_number = 2

\* the token kinds of the operators that may be followed by '='
OneCharOperator(c) ==
    CASE c = "<" -> "OpLess" [] c = ">" -> "OpGreater"
      [] c = "=" -> "OpAssign" [] c = "!" -> "OpNot"

TwoCharOperator(c) ==
    CASE c = "<" -> "OpLessEqual" [] c = ">" -> "OpGreaterEqual"
      [] c = "=" -> "OpEqual" [] c = "!" -> "OpNotEqual"

\* the kinds and the columns tests::test_two_chars expects for TwoCharsText
TwoCharsExpected ==
    << <<"OpLess", 1>>, <<"OpLessEqual", 2>>, <<"OpGreater", 4>>,
       <<"OpGreaterEqual", 5>>, <<"OpEqual", 7>>, <<"OpAssign", 9>>,
       <<"OpNot", 10>>, <<"OpNotEqual", 11>>, <<"OpAnd", 13>>, <<"OpOr", 15>> >>

\* C11: for each of '<', '>', '=', '!' the lexer returns the two-character
\* token and consumes both characters when the next character is '=', and
\* returns the one-character token and consumes exactly one character
\* otherwise; the input "<<=>>====!!=&&||" lexes as <, <=, >, >=, ==, =, !,
\* !=, &&, || at the columns 1, 2, 4, 5, 7, 9, 10, 11, 13, 15.
C11_TwoCharOperators ==
    /\ \A i \in 1..Len(results) :
            LET k == results[i].first
                two == k + 1 <= Len(src) /\ src[k + 1] = "="
            IN  (k <= Len(src) /\ src[k] \in {"<", ">", "=", "!"}) =>
                    /\ results[i].ok
                    /\ results[i].token.kind =
                            IF two THEN TwoCharOperator(src[k])
                            ELSE OneCharOperator(src[k])
                    /\ i = Len(results) =>
                            Unread(Lexer) = Len(src) - k - (IF two THEN 1 ELSE 0)
    /\ src = TwoCharsText =>
            \A i \in 1..Len(results) :
                IF i <= Len(TwoCharsExpected)
                THEN /\ results[i].ok
                     /\ results[i].token.kind = TwoCharsExpected[i][1]
                     /\ results[i].token.line_number = 1
                     /\ results[i].token.column_number = TwoCharsExpected[i][2]
                ELSE IsEndOfInput(results[i])

\* the ten tokens of "<<=>>====!!=&&||" were returned, and then End_of_input
C11_Witness ==
    /\ src = TwoCharsText
    /\ Len(results) = 11
    /\ results[2].token.kind = "OpLessEqual"
    /\ results[6].token.kind = "OpAssign"
    /\ IsEndOfInput(results[11])

----------------------------------------------------------------------------
(* The text form of a token: src/lexical_analyzer/src/token.rs *)

TokenKinds ==
    {"OpMultiply", "OpDivide", "OpMod", "OpAdd", "OpSubtract",
     "OpLess", "OpLessEqual", "OpGreater", "OpGreaterEqual", "OpEqual",
     "OpNotEqual", "OpNot", "OpAssign", "OpAnd", "OpOr",
     "LeftParen", "RightParen", "LeftBrace", "RightBrace", "Semicolon",
     "Comma", "KeywordIf", "KeywordElse", "KeywordWhile", "KeywordPrint",
     "KeywordPutc", "Identifier", "Integer", "String", "EndOfInput"}

\* the kind names Token::from_line matches on
KindName(kind) ==
    CASE kind = "OpMultiply" -> <<"O", "p", "_", "m", "u", "l", "t", "i", "p", "l", "y">>
      [] kind = "OpDivide" -> <<"O", "p", "_", "d", "i", "v", "i", "d", "e">>
      [] kind = "OpMod" -> <<"O", "p", "_", "m", "o", "d">>
      [] kind = "OpAdd" -> <<"O", "p", "_", "a", "d", "d">>
      [] kind = "OpSubtract" -> <<"O", "p", "_", "s", "u", "b", "t", "r", "a", "c", "t">>
      [] kind = "OpLess" -> <<"O", "p", "_", "l", "e", "s", "s">>
      [] kind = "OpLessEqual" -> <<"O", "p", "_", "l", "e", "s", "s", "e", "q", "u", "a", "l">>
      [] kind = "OpGreater" -> <<"O", "p", "_", "g", "r", "e", "a", "t", "e", "r">>
      [] kind = "OpGreaterEqual" -> <<"O", "p", "_", "g", "r", "e", "a", "t", "e", "r", "e", "q", "u", "a", "l">>
      [] kind = "OpEqual" -> <<"O", "p", "_", "e", "q", "u", "a", "l">>
      [] kind = "OpNotEqual" -> <<"O", "p", "_", "n", "o", "t", "e", "q", "u", "a", "l">>
      [] kind = "OpNot" -> <<"O", "p", "_", "n", "o", "t">>
      [] kind = "OpAssign" -> <<"O", "p", "_", "a", "s", "s", "i", "g", "n">>
      [] kind = "OpAnd" -> <<"O", "p", "_", "a", "n", "d">>
      [] kind = "OpOr" -> <<"O", "p", "_", "o", "r">>
      [] kind = "LeftParen" -> <<"L", "e", "f", "t", "P", "a", "r", "e", "n">>
      [] kind = "RightParen" -> <<"R", "i", "g", "h", "t", "P", "a", "r", "e", "n">>
      [] kind = "LeftBrace" -> <<"L", "e", "f", "t", "B", "r", "a", "c", "e">>
      [] kind = "RightBrace" -> <<"R", "i", "g", "h", "t", "B", "r", "a", "c", "e">>
      [] kind = "Semicolon" -> <<"S", "e", "m", "i", "c", "o", "l", "o", "n">>
      [] kind = "Comma" -> <<"C", "o", "m", "m", "a">>
      [] kind = "KeywordIf" -> <<"K", "e", "y", "w", "o", "r", "d", "_", "i", "f">>
      [] kind = "KeywordElse" -> <<"K", "e", "y", "w", "o", "r", "d", "_", "e", "l", "s", "e">>
      [] kind = "KeywordWhile" -> <<"K", "e", "y", "w", "o", "r", "d", "_", "w", "h", "i", "l", "e">>
      [] kind = "KeywordPrint" -> <<"K", "e", "y", "w", "o", "r", "d", "_", "p", "r", "i", "n", "t">>
      [] kind = "KeywordPutc" -> <<"K", "e", "y", "w", "o", "r", "d", "_", "p", "u", "t", "c">>
      [] kind = "Identifier" -> <<"I", "d", "e", "n", "t", "i", "f", "i", "e", "r">>
      [] kind = "Integer" -> <<"I", "n", "t", "e", "g", "e", "r">>
      [] kind = "String" -> <<"S", "t", "r", "i", "n", "g">>
      [] kind = "EndOfInput" -> <<"E", "n", "d", "_", "o", "f", "_", "i", "n", "p", "u", "t">>

\* "{:?}" of a TokenKind without payload: the name of the variant
VariantName(kind) ==
    CASE kind = "LeftParen" -> <<"L", "e", "f", "t", "P", "a", "r", "e", "n">>
      [] kind = "RightParen" -> <<"R", "i", "g", "h", "t", "P", "a", "r", "e", "n">>
      [] kind = "LeftBrace" -> <<"L", "e", "f", "t", "B", "r", "a", "c", "e">>
      [] kind = "RightBrace" -> <<"R", "i", "g", "h", "t", "B", "r", "a", "c", "e">>
      [] kind = "Semicolon" -> <<"S", "e", "m", "i", "c", "o", "l", "o", "n">>
      [] kind = "Comma" -> <<"C", "o", "m", "m", "a">>

\* "{:?}" of a character inside a str (char::escape_debug)
EscapeDebug(c) ==
    CASE c = NL -> <<BSL, "n">>
      [] c = TAB -> <<BSL, "t">>
      [] c = BSL -> <<BSL, BSL>>
      [] c = DQ -> <<BSL, DQ>>
      [] OTHER -> <<c>>

RECURSIVE EscapeDebugAll(_)
EscapeDebugAll(s) ==
    IF s = <<>> THEN <<>> ELSE EscapeDebug(Head(s)) \o EscapeDebugAll(Tail(s))

\* "{:?}" of a str
DebugStr(s) == <<DQ>> \o EscapeDebugAll(s) \o <<DQ>>

PrintedAsIdentifier ==
    {"OpMultiply", "OpDivide", "OpMod", "OpAdd", "OpSubtract", "OpLess",
     "OpLessEqual", "OpGreater"}

PrintedByName ==
    {"OpGreaterEqual", "OpEqual", "OpNotEqual", "OpNot", "OpAssign", "OpAnd",
     "OpOr", "KeywordIf", "KeywordElse", "KeywordWhile", "KeywordPrint",
     "KeywordPutc"}

\* impl fmt::Display for Token
TokenDisplay(t) ==
    LET pos == IntText(t.line_number) \o <<SP>> \o IntText(t.column_number) \o <<SP>>
    IN  CASE t.kind \in PrintedAsIdentifier ->
                pos \o KindName("Identifier") \o <<SP>> \o KindName(t.kind)
          [] t.kind \in PrintedByName -> pos \o KindName(t.kind)
          [] t.kind = "Identifier" -> pos \o KindName("Identifier") \o <<SP>> \o t.text
          [] t.kind = "Integer" -> pos \o KindName("Integer") \o <<SP>> \o IntText(t.value)
          [] t.kind = "String" -> pos \o KindName("String") \o <<SP>> \o DebugStr(t.text)
          [] t.kind = "EndOfInput" ->
                pos \o KindName("String") \o <<SP>> \o KindName("EndOfInput")
          [] OTHER -> pos \o VariantName(t.kind)

\* str::trim
RECURSIVE TrimStart(_)
TrimStart(s) ==
    IF s # <<>> /\ is_whitespace(Head(s)) THEN TrimStart(Tail(s)) ELSE s

RECURSIVE TrimEnd(_)
TrimEnd(s) ==
    IF s # <<>> /\ is_whitespace(s[Len(s)])
    THEN TrimEnd(SubSeq(s, 1, Len(s) - 1)) ELSE s

Trim(s) == TrimEnd(TrimStart(s))

\* TokenReader::next_element: the element and the characters left
RECURSIVE ElementLoop(_, _)
ElementLoop(rest, element) ==
    IF rest # <<>> /\ ~is_whitespace(Head(rest))
    THEN ElementLoop(Tail(rest), Append(element, Head(rest)))
    ELSE [element |-> element, rest |-> rest]

next_element(rest) == ElementLoop(TrimStart(rest), <<>>)

\* TokenReader::read_string, after the opening quote
RECURSIVE ReadStringLoop(_, _)
ReadStringLoop(rest, s) ==
    IF rest = <<>> THEN [ok |-> FALSE, s |-> s]
    ELSE IF Head(rest) = DQ THEN [ok |-> TRUE, s |-> s]
    ELSE IF Head(rest) = BSL
    THEN IF Len(rest) >= 2 /\ rest[2] = "n"
         THEN ReadStringLoop(Tail(Tail(rest)), Append(s, NL))
         ELSE IF Len(rest) >= 2 /\ rest[2] = BSL
         THEN ReadStringLoop(Tail(Tail(rest)), Append(s, BSL))
         ELSE [ok |-> FALSE, s |-> s]
    ELSE ReadStringLoop(Tail(rest), Append(s, Head(rest)))

read_string(rest) ==
    LET r == TrimStart(rest)
    IN  IF r = <<>> \/ Head(r) # DQ THEN [ok |-> FALSE, s |-> <<>>]
        ELSE ReadStringLoop(Tail(r), <<>>)

\* Token::from_line: status is "ok" (Ok), "err" (Err) or "panic" (an unwrap
\* of a failed parse)
from_line(line) ==
    LET e1 == next_element(Trim(line))
        e2 == next_element(e1.rest)
        e3 == next_element(e2.rest)
        ln == ParseUsize(e1.element)
        col == ParseUsize(e2.element)
        buf == e3.element
        kinds == {k \in TokenKinds : KindName(k) = buf}
        kind == CHOOSE k \in kinds : TRUE
        made(text, value) ==
            [status |-> "ok", token |-> Token(kind, text, value, ln.value, col.value)]
    IN  IF ~ln.ok \/ ~col.ok THEN [status |-> "panic", token |-> NoToken]
        ELSE IF kinds = {} THEN [status |-> "err", token |-> NoToken]
        ELSE CASE kind = "Integer" ->
                    LET i == ParseI32(next_element(e3.rest).element)
                    IN  IF i.ok THEN made(<<>>, i.value)
                        ELSE [status |-> "panic", token |-> NoToken]
               [] kind = "Identifier" -> made(next_element(e3.rest).element, 0)
               [] kind = "String" ->
                    LET s == read_string(e3.rest)
                    IN  IF s.ok THEN made(s.s, 0)
                        ELSE [status |-> "err", token |-> NoToken]
               [] OTHER -> made(<<>>, 0)

----------------------------------------------------------------------------
(* Printing a token and reading the line back *)

MaxLine == 2
MaxColumn == 2
MaxPayloadLen == 2

PayloadAlphabet == {"a", SP, NL, TAB, BSL}

\* tokens as next_token makes them: a name for an Identifier, a value for an
\* Integer, a decoded text for a String
LexerTokens ==
    {Token(k, <<>>, 0, l, c) :
        k \in TokenKinds \ {"Identifier", "Integer", "String"},
        l \in 1..MaxLine, c \in 1..MaxColumn}
    \cup {Token("Identifier", n, 0, l, c) :
        n \in {<<"a">>, <<"x", "1">>, <<"_">>}, l \in 1..MaxLine, c \in 1..MaxColumn}
    \cup {Token("Integer", <<>>, v, l, c) :
        v \in {0, 42, I32Max}, l \in 1..MaxLine, c \in 1..MaxColumn}
    \cup {Token("String", s, 0, l, c) :
        s \in Texts(PayloadAlphabet, MaxPayloadLen),
        l \in 1..MaxLine, c \in 1..MaxColumn}

TokInit ==
    /\ token \in LexerTokens
    /\ token_text = <<>>
    /\ token_read = [status |-> "none", token |-> NoToken]

\* analyze (the lexer's driver) prints the token
PrintToken ==
    /\ token_text = <<>>
    /\ token_text' = TokenDisplay(token)
    /\ UNCHANGED <<token, token_read>>

\* the parser's driver reads the line
ReadToken ==
    /\ token_text # <<>>
    /\ token_read.status = "none"
    /\ token_read' = from_line(token_text)
    /\ UNCHANGED <<token, token_text>>

TokNext == (PrintToken \/ ReadToken) /\ UNCHANGED <<lexvars, astvars, pipevars>>

InitTok == TokInit /\ LexIdle /\ AstIdle /\ PipeIdle

SpecTok == InitTok /\ [][TokNext]_vars

\* the third field of a token line
ThirdField(line) ==
    next_element(next_element(next_element(Trim(line)).rest).rest).element

\* C6: the line printed for a token has the fixed kind name of the token as
\* its third field, and Token::from_line on the line returns a token of the
\* same kind, payload, line and column.
C6_TokenRoundTrip ==
    /\ token_text # <<>> => ThirdField(token_text) = KindName(token.kind)
    /\ token_read.status # "none" =>
            token_read.status = "ok" /\ token_read.token = token

----------------------------------------------------------------------------
(* The AST and its text form: src/syntax_analyzer/src/ast_node.rs *)

\* ASTNode { kind, lhs, rhs }; text is the payload of Identifier and String,
\* value the payload of Integer
Node(kind, lhs, rhs) ==
    [kind |-> kind, text |-> <<>>, value |-> 0, lhs |-> lhs, rhs |-> rhs]

IdentifierNode(name) ==
    [kind |-> "Identifier", text |-> name, value |-> 0, lhs |-> Nil, rhs |-> Nil]

IntegerNode(v) ==
    [kind |-> "Integer", text |-> <<>>, value |-> v, lhs |-> Nil, rhs |-> Nil]

StringNode(s) ==
    [kind |-> "String", text |-> s, value |-> 0, lhs |-> Nil, rhs |-> Nil]

BinaryKinds ==
    {"Multiply", "Divide", "Mod", "Add", "Subtract", "Less", "LessEqual",
     "Greater", "GreaterEqual", "Equal", "NotEqual", "And", "Or"}

UnaryKinds == {"Negate", "Not"}

InteriorKinds ==
    {"Sequence", "If", "Prtc", "Prts", "Prti", "While", "Assign"}
        \cup UnaryKinds \cup BinaryKinds

\* "{:?}" of a NodeKind without payload, which is also the word make_node
\* matches on
NodeKindName(kind) ==
    CASE kind = "Sequence" -> <<"S", "e", "q", "u", "e", "n", "c", "e">>
      [] kind = "If" -> <<"I", "f">>
      [] kind = "Prtc" -> <<"P", "r", "t", "c">>
      [] kind = "Prts" -> <<"P", "r", "t", "s">>
      [] kind = "Prti" -> <<"P", "r", "t", "i">>
      [] kind = "While" -> <<"W", "h", "i", "l", "e">>
      [] kind = "Assign" -> <<"A", "s", "s", "i", "g", "n">>
      [] kind = "Negate" -> <<"N", "e", "g", "a", "t", "e">>
      [] kind = "Not" -> <<"N", "o", "t">>
      [] kind = "Multiply" -> <<"M", "u", "l", "t", "i", "p", "l", "y">>
      [] kind = "Divide" -> <<"D", "i", "v", "i", "d", "e">>
      [] kind = "Mod" -> <<"M", "o", "d">>
      [] kind = "Add" -> <<"A", "d", "d">>
      [] kind = "Subtract" -> <<"S", "u", "b", "t", "r", "a", "c", "t">>
      [] kind = "Less" -> <<"L", "e", "s", "s">>
      [] kind = "LessEqual" -> <<"L", "e", "s", "s", "E", "q", "u", "a", "l">>
      [] kind = "Greater" -> <<"G", "r", "e", "a", "t", "e", "r">>
      [] kind = "GreaterEqual" -> <<"G", "r", "e", "a", "t", "e", "r", "E", "q", "u", "a", "l">>
      [] kind = "Equal" -> <<"E", "q", "u", "a", "l">>
      [] kind = "NotEqual" -> <<"N", "o", "t", "E", "q", "u", "a", "l">>
      [] kind = "And" -> <<"A", "n", "d">>
      [] kind = "Or" -> <<"O", "r">>
      [] kind = "Identifier" -> <<"I", "d", "e", "n", "t", "i", "f", "i", "e", "r">>
      [] kind = "Integer" -> <<"I", "n", "t", "e", "g", "e", "r">>
      [] kind = "String" -> <<"S", "t", "r", "i", "n", "g">>

\* impl fmt::Display for ASTNode
RECURSIVE NodeDisplay(_)
NodeDisplay(n) ==
    CASE n.kind = "Identifier" -> NodeKindName("Identifier") \o <<SP>> \o n.text \o <<NL>>
      [] n.kind = "String" -> NodeKindName("String") \o <<SP>> \o DebugStr(n.text) \o <<NL>>
      [] n.kind = "Integer" -> NodeKindName("Integer") \o <<SP>> \o IntText(n.value) \o <<NL>>
      [] OTHER ->
            NodeKindName(n.kind) \o <<NL>>
                \o (IF n.lhs = Nil THEN <<";", NL>> ELSE NodeDisplay(n.lhs))
                \o (IF n.rhs = Nil THEN <<";", NL>> ELSE NodeDisplay(n.rhs))

\* str::lines: the lines of a text, without their newlines
RECURSIVE LinesLoop(_, _)
LinesLoop(s, line) ==
    IF s = <<>> THEN (IF line = <<>> THEN <<>> ELSE <<line>>)
    ELSE IF Head(s) = NL THEN <<line>> \o LinesLoop(Tail(s), <<>>)
    ELSE LinesLoop(Tail(s), Append(line, Head(s)))

\* the same lines by the places of the newlines: line k lies between the
\* newline before it and its own newline, and a text that does not end in
\* a newline has one more line
Lines(s) ==
    LET ends == {i \in 1 .. Len(s) : s[i] = NL}
        End(k) == CHOOSE p \in ends : Cardinality({q \in ends : q < p}) = k - 1
        full == Cardinality(ends)
        count == IF s # <<>> /\ s[Len(s)] # NL THEN full + 1 ELSE full
    IN  [k \in 1 .. count |->
            SubSeq(s, IF k = 1 THEN 1 ELSE End(k - 1) + 1,
                      IF k <= full THEN End(k) - 1 ELSE Len(s))]

\* str::splitn(2, ' '): the text before the first space, and the text after
\* it when there is a space
RECURSIVE Splitn2Loop(_, _)
Splitn2Loop(s, first) ==
    IF s = <<>> THEN <<first>>
    ELSE IF Head(s) = SP THEN <<first, Tail(s)>>
    ELSE Splitn2Loop(Tail(s), Append(first, Head(s)))

Splitn2(s) == Splitn2Loop(s, <<>>)

\* ASTReader::make_string, after the opening quote: the decoded text, or a
\* panic (unreachable!)
RECURSIVE MakeStringLoop(_, _)
MakeStringLoop(cs, value) ==
    IF cs = <<>> THEN [ok |-> FALSE, s |-> value]
    ELSE IF Head(cs) = DQ THEN [ok |-> TRUE, s |-> value]
    ELSE IF Head(cs) = BSL
    THEN IF Len(cs) >= 2 /\ cs[2] = "n"
         THEN MakeStringLoop(Tail(Tail(cs)), Append(value, NL))
         ELSE IF Len(cs) >= 2 /\ cs[2] = BSL
         THEN MakeStringLoop(Tail(Tail(cs)), Append(value, BSL))
         ELSE [ok |-> FALSE, s |-> value]
    ELSE MakeStringLoop(Tail(cs), Append(value, Head(cs)))

make_string(s) ==
    IF s = <<>> \/ Head(s) # DQ THEN [ok |-> FALSE, s |-> <<>>]
    ELSE MakeStringLoop(Tail(s), <<>>)

\* ASTReader::make_node with make_interior_node: the node (Nil for None),
\* the lines left in the stream and whether the reader panicked
RECURSIVE make_node(_)
make_node(lines) ==
    IF lines = <<>> THEN [ok |-> TRUE, node |-> Nil, rest |-> <<>>]
    ELSE LET elements == Splitn2(Trim(Head(lines)))
             word == elements[1]
             rest == Tail(lines)
             kinds == {k \in InteriorKinds : NodeKindName(k) = word}
             panic == [ok |-> FALSE, node |-> Nil, rest |-> rest]
         IN  CASE word = <<";">> -> [ok |-> TRUE, node |-> Nil, rest |-> rest]
               [] word = NodeKindName("Identifier") ->
                     IF Len(elements) < 2 THEN panic
                     ELSE [ok |-> TRUE, node |-> IdentifierNode(Trim(elements[2])),
                           rest |-> rest]
               [] word = NodeKindName("Integer") ->
                     IF Len(elements) < 2 \/ ~ParseI32(Trim(elements[2])).ok THEN panic
                     ELSE [ok |-> TRUE,
                           node |-> IntegerNode(ParseI32(Trim(elements[2])).value),
                           rest |-> rest]
               [] word = NodeKindName("String") ->
                     IF Len(elements) < 2 \/ ~make_string(Trim(elements[2])).ok THEN panic
                     ELSE [ok |-> TRUE,
                           node |-> StringNode(make_string(Trim(elements[2])).s),
                           rest |-> rest]
               [] kinds # {} ->
                     LET l == make_node(rest)
                         r == make_node(l.rest)
                     IN  IF ~l.ok THEN l
                         ELSE IF ~r.ok THEN r
                         ELSE [ok |-> TRUE,
                               node |-> Node(CHOOSE k \in kinds : TRUE, l.node, r.node),
                               rest |-> r.rest]
               [] OTHER -> panic

\* ASTReader::read_ast: status "panic" stands for unreachable!() and for
\* the unwrap of None
read_ast(lines) ==
    LET r == make_node(lines)
    IN  IF r.ok /\ r.node # Nil THEN [status |-> "ok", node |-> r.node]
        ELSE [status |-> "panic", node |-> Nil]

----------------------------------------------------------------------------
(* Printing a tree and reading the text back *)

SmallLeaves ==
    {IdentifierNode(<<"a">>), IntegerNode(0), IntegerNode(-1), StringNode(<<"a">>)}

StringLeaves == {StringNode(s) : s \in Texts(PayloadAlphabet, MaxPayloadLen)}

\* one interior node over leaves and absent children
FlatTrees ==
    {Node(k, l, r) : k \in InteriorKinds,
                     l \in SmallLeaves \cup {Nil}, r \in SmallLeaves \cup {Nil}}
    \cup {Node("Prts", l, Nil) : l \in StringLeaves}

Subtrees ==
    {Node(k, l, r) : k \in {"Sequence", "Assign"},
                     l \in SmallLeaves \cup {Nil}, r \in SmallLeaves \cup {Nil}}
    \cup {Node("Prts", l, Nil) : l \in StringLeaves}
    \cup SmallLeaves \cup {Nil}

DeepTrees ==
    {Node(k, l, r) : k \in {"Sequence", "If", "While", "Add"},
                     l \in Subtrees, r \in Subtrees}

PrintableTrees == SmallLeaves \cup StringLeaves \cup FlatTrees \cup DeepTrees

AstInit ==
    /\ tree \in PrintableTrees
    /\ tree_text = <<>>
    /\ tree_read = [status |-> "none", node |-> Nil]

\* the parser's driver prints the tree
PrintTree ==
    /\ tree_text = <<>>
    /\ tree_text' = NodeDisplay(tree)
    /\ UNCHANGED <<tree, tree_read>>

\* the drivers of the back ends read the text
ReadTree ==
    /\ tree_text # <<>>
    /\ tree_read.status = "none"
    /\ tree_read' = read_ast(Lines(tree_text))
    /\ UNCHANGED <<tree, tree_text>>

AstNext == (PrintTree \/ ReadTree) /\ UNCHANGED <<lexvars, tokvars, pipevars>>

InitAst == AstInit /\ LexIdle /\ TokIdle /\ PipeIdle

SpecAst == InitAst /\ [][AstNext]_vars

\* C5: for every tree of the node kinds of the language, read_ast on the
\* lines of the pre-order text printed for the tree returns a tree equal to
\* it.
C5_TreeRoundTrip ==
    tree_read.status # "none" =>
        tree_read.status = "ok" /\ tree_read.node = tree

----------------------------------------------------------------------------
(* The syntax analyzer: src/syntax_analyzer/src/lib.rs *)

\* operator(): the node kind and the precedence of a token kind; every
\* operator is left associative, NOT_OPERATOR has precedence -1
operator(kind) ==
    CASE kind = "OpOr" -> [kind |-> "Or", right_associative |-> FALSE, precedence |-> 10]
      [] kind = "OpAnd" -> [kind |-> "And", right_associative |-> FALSE, precedence |-> 20]
      [] kind = "OpEqual" -> [kind |-> "Equal", right_associative |-> FALSE, precedence |-> 30]
      [] kind = "OpNotEqual" ->
            [kind |-> "NotEqual", right_associative |-> FALSE, precedence |-> 30]
      [] kind = "OpLess" -> [kind |-> "Less", right_associative |-> FALSE, precedence |-> 40]
      [] kind = "OpLessEqual" ->
            [kind |-> "LessEqual", right_associative |-> FALSE, precedence |-> 40]
      [] kind = "OpGreater" ->
            [kind |-> "Greater", right_associative |-> FALSE, precedence |-> 40]
      [] kind = "OpGreaterEqual" ->
            [kind |-> "GreaterEqual", right_associative |-> FALSE, precedence |-> 40]
      [] kind = "OpAdd" -> [kind |-> "Add", right_associative |-> FALSE, precedence |-> 50]
      [] kind = "OpSubtract" ->
            [kind |-> "Subtract", right_associative |-> FALSE, precedence |-> 50]
      [] kind = "OpMultiply" ->
            [kind |-> "Multiply", right_associative |-> FALSE, precedence |-> 60]
      [] kind = "OpDivide" ->
            [kind |-> "Divide", right_associative |-> FALSE, precedence |-> 60]
      [] kind = "OpMod" -> [kind |-> "Mod", right_associative |-> FALSE, precedence |-> 60]
      [] OTHER -> [kind |-> "None", right_associative |-> FALSE, precedence |-> -1]

\* Result<ASTNode> together with the parser (next_token, token_iter) the call
\* leaves behind
POk(P, node) == [ok |-> TRUE, node |-> node, P |-> P, err |-> ""]
PErr(P, msg) == [ok |-> FALSE, node |-> Nil, P |-> P, err |-> msg]

\* SyntaxAnalyzer::read_token: the token that was next, or the error at the
\* end of the iterator
read_token(P) ==
    IF P.token_iter = <<>>
    THEN [ok |-> FALSE, token |-> NoToken, P |-> P]
    ELSE [ok |-> TRUE, token |-> P.next_token,
          P |-> [next_token |-> Head(P.token_iter), token_iter |-> Tail(P.token_iter)]]

Eof == "unexpected EOF"

\* reads a token of the kind when it is there, and goes on when it is not
ExpectOrSkip(P, kind, msg) ==
    IF P.next_token.kind # kind THEN POk(P, Nil)
    ELSE LET t == read_token(P)
         IN  IF t.ok THEN POk(t.P, Nil) ELSE PErr(t.P, Eof)

\* reads a token of the kind, or fails with the message
Expect(P, kind, msg) ==
    IF P.next_token.kind # kind THEN PErr(P, msg)
    ELSE LET t == read_token(P)
         IN  IF t.ok THEN POk(t.P, Nil) ELSE PErr(t.P, Eof)

StmtStart ==
    {"Semicolon", "Identifier", "KeywordWhile", "KeywordIf", "KeywordPrint",
     "KeywordPutc", "LeftBrace"}

\* a call of one parsing method from another: rule names the method, node
\* and min_precedence are the arguments of parse_expr_body
RECURSIVE parse_rule(_, _, _, _)

RECURSIVE StmtListLoop(_, _), PrtListLoop(_, _), ExprBodyLoop(_, _, _), RhsLoop(_, _, _)

\* parse_stmt_list that demands a first statement
parse_stmt_list_nonempty(P) ==
    IF P.next_token.kind \in StmtStart
    THEN LET st == parse_rule("parse_stmt", Nil, 0, P)
         IN  IF ~st.ok THEN st
             ELSE StmtListLoop(st.P, Node("Sequence", Nil, st.node))
    ELSE PErr(P, "unexpected token")

\* SyntaxAnalyzer::parse_stmt_list
parse_stmt_list(P) ==
    IF P.next_token.kind \in StmtStart
    THEN LET st == parse_rule("parse_stmt", Nil, 0, P)
         IN  IF ~st.ok THEN st
             ELSE StmtListLoop(st.P, Node("Sequence", Nil, st.node))
    ELSE POk(P, Node("Sequence", Nil, Nil))

\* the loop of parse_stmt_list with the children of the new node exchanged
StmtListLoopExchanged(P, node) ==
    IF P.next_token.kind \in StmtStart
    THEN LET st == parse_rule("parse_stmt", Nil, 0, P)
         IN  IF ~st.ok THEN st
             ELSE StmtListLoop(st.P, Node("Sequence", st.node, node))
    ELSE POk(P, node)

\* the loop of parse_stmt_list
StmtListLoop(P, node) ==
    IF P.next_token.kind \in StmtStart
    THEN LET st == parse_rule("parse_stmt", Nil, 0, P)
         IN  IF ~st.ok THEN st
             ELSE StmtListLoop(st.P, Node("Sequence", node, st.node))
    ELSE POk(P, node)

\* SyntaxAnalyzer::parse_stmt
parse_stmt(P) ==
    LET kind == P.next_token.kind
    IN  CASE kind = "Semicolon" ->
                LET t == read_token(P)
                IN  IF t.ok THEN POk(t.P, Node("Sequence", Nil, Nil)) ELSE PErr(t.P, Eof)
          [] kind = "Identifier" -> parse_rule("parse_assign_stmt", Nil, 0, P)
          [] kind = "KeywordWhile" -> parse_rule("parse_while_stmt", Nil, 0, P)
          [] kind = "KeywordIf" -> parse_rule("parse_if_stmt", Nil, 0, P)
          [] kind = "KeywordPrint" -> parse_rule("parse_print_stmt", Nil, 0, P)
          [] kind = "KeywordPutc" -> parse_rule("parse_putc_stmt", Nil, 0, P)
          [] kind = "LeftBrace" ->
                LET t == read_token(P)
                    list == parse_rule("parse_stmt_list", Nil, 0, t.P)
                    close == Expect(list.P, "RightBrace", "'}' is expected.")
                IN  IF ~t.ok THEN PErr(t.P, Eof)
                    ELSE IF ~list.ok THEN list
                    ELSE IF ~close.ok THEN close
                    ELSE POk(close.P, list.node)
          [] OTHER -> PErr(P, "unexpected token")

\* SyntaxAnalyzer::parse_assign_stmt
parse_assign_stmt(P) ==
    LET t == read_token(P)
        assign == Expect(t.P, "OpAssign", "'=' is expected.")
        rhs == parse_rule("parse_expr", Nil, 0, assign.P)
        semi == Expect(rhs.P, "Semicolon", "';' is expected.")
    IN  IF ~t.ok THEN PErr(t.P, Eof)
        ELSE IF t.token.kind # "Identifier" THEN PErr(t.P, "Identifier is expected")
        ELSE IF ~assign.ok THEN assign
        ELSE IF ~rhs.ok THEN rhs
        ELSE IF ~semi.ok THEN semi
        ELSE POk(semi.P, Node("Assign", IdentifierNode(t.token.text), rhs.node))

\* SyntaxAnalyzer::parse_while_stmt
parse_while_stmt(P) ==
    LET kw == Expect(P, "KeywordWhile", "\"while\" is expected.")
        lhs == parse_rule("parse_paren_expr", Nil, 0, kw.P)
        rhs == parse_rule("parse_stmt", Nil, 0, lhs.P)
    IN  IF ~kw.ok THEN kw
        ELSE IF ~lhs.ok THEN lhs
        ELSE IF ~rhs.ok THEN rhs
        ELSE POk(rhs.P, Node("While", lhs.node, rhs.node))

\* a parse_if_stmt that takes the else of an if in its then clause for its
\* own
parse_if_stmt_else_to_outer(P) ==
    LET kw == Expect(P, "KeywordIf", "\"if\" is expected.")
        condition == parse_rule("parse_paren_expr", Nil, 0, kw.P)
        if_clause == parse_rule("parse_stmt", Nil, 0, condition.P)
        has_else == if_clause.P.next_token.kind = "KeywordElse"
        t == read_token(if_clause.P)
        else_clause == parse_rule("parse_stmt", Nil, 0, t.P)
        inner == if_clause.node
    IN  IF ~kw.ok THEN kw
        ELSE IF ~condition.ok THEN condition
        ELSE IF ~if_clause.ok THEN if_clause
        ELSE IF ~has_else
        THEN (IF inner.kind = "If" /\ inner.rhs.rhs # Nil
              THEN POk(if_clause.P,
                       Node("If", condition.node,
                            Node("If",
                                 Node("If", inner.lhs, Node("If", inner.rhs.lhs, Nil)),
                                 inner.rhs.rhs)))
              ELSE POk(if_clause.P,
                       Node("If", condition.node, Node("If", if_clause.node, Nil))))
        ELSE IF ~t.ok THEN PErr(t.P, Eof)
        ELSE IF ~else_clause.ok THEN else_clause
        ELSE POk(else_clause.P,
                 Node("If", condition.node,
                      Node("If", if_clause.node, else_clause.node)))

\* parse_if_stmt with the two clauses of the inner If exchanged
parse_if_stmt_exchanged(P) ==
    LET kw == Expect(P, "KeywordIf", "\"if\" is expected.")
        condition == parse_rule("parse_paren_expr", Nil, 0, kw.P)
        if_clause == parse_rule("parse_stmt", Nil, 0, condition.P)
        has_else == if_clause.P.next_token.kind = "KeywordElse"
        t == read_token(if_clause.P)
        else_clause == parse_rule("parse_stmt", Nil, 0, t.P)
    IN  IF ~kw.ok THEN kw
        ELSE IF ~condition.ok THEN condition
        ELSE IF ~if_clause.ok THEN if_clause
        ELSE IF ~has_else
        THEN POk(if_clause.P,
                 Node("If", condition.node, Node("If", if_clause.node, Nil)))
        ELSE IF ~t.ok THEN PErr(t.P, Eof)
        ELSE IF ~else_clause.ok THEN else_clause
        ELSE POk(else_clause.P,
                 Node("If", condition.node,
                      Node("If", else_clause.node, if_clause.node)))

\* SyntaxAnalyzer::parse_if_stmt
parse_if_stmt(P) ==
    LET kw == Expect(P, "KeywordIf", "\"if\" is expected.")
        condition == parse_rule("parse_paren_expr", Nil, 0, kw.P)
        if_clause == parse_rule("parse_stmt", Nil, 0, condition.P)
        has_else == if_clause.P.next_token.kind = "KeywordElse"
        t == read_token(if_clause.P)
        else_clause == parse_rule("parse_stmt", Nil, 0, t.P)
    IN  IF ~kw.ok THEN kw
        ELSE IF ~condition.ok THEN condition
        ELSE IF ~if_clause.ok THEN if_clause
        ELSE IF ~has_else
        THEN POk(if_clause.P,
                 Node("If", condition.node, Node("If", if_clause.node, Nil)))
        ELSE IF ~t.ok THEN PErr(t.P, Eof)
        ELSE IF ~else_clause.ok THEN else_clause
        ELSE POk(else_clause.P,
                 Node("If", condition.node,
                      Node("If", if_clause.node, else_clause.node)))

\* SyntaxAnalyzer::parse_print_stmt
parse_print_stmt(P) ==
    LET kw == Expect(P, "KeywordPrint", "\"print\" is expected.")
        open == Expect(kw.P, "LeftParen", "'(' is expected.")
        list == parse_rule("parse_prt_list", Nil, 0, open.P)
        close == Expect(list.P, "RightParen", "')' is expected.")
        semi == Expect(close.P, "Semicolon", "';' is expected.")
    IN  IF ~kw.ok THEN kw
        ELSE IF ~open.ok THEN open
        ELSE IF ~list.ok THEN list
        ELSE IF ~close.ok THEN close
        ELSE IF ~semi.ok THEN semi
        ELSE POk(semi.P, list.node)

\* SyntaxAnalyzer::parse_putc_stmt
parse_putc_stmt(P) ==
    LET kw == Expect(P, "KeywordPutc", "\"putc\" is expected.")
        lhs == parse_rule("parse_paren_expr", Nil, 0, kw.P)
        semi == Expect(lhs.P, "Semicolon", "';' is expected.")
    IN  IF ~kw.ok THEN kw
        ELSE IF ~lhs.ok THEN lhs
        ELSE IF ~semi.ok THEN semi
        ELSE POk(semi.P, Node("Prtc", lhs.node, Nil))

\* an item of parse_prt_list that is a Prti over a String token as well
PrtItemAlwaysPrti(P) ==
    IF P.next_token.kind = "String"
    THEN LET t == read_token(P)
         IN  IF t.ok THEN POk(t.P, Node("Prti", StringNode(t.token.text), Nil))
             ELSE PErr(t.P, Eof)
    ELSE LET e == parse_rule("parse_expr", Nil, 0, P)
         IN  IF e.ok THEN POk(e.P, Node("Prti", e.node, Nil)) ELSE e

\* one item of parse_prt_list: Prts over a String token (make_string_node),
\* Prti over an expression
PrtItem(P) ==
    IF P.next_token.kind = "String"
    THEN LET t == read_token(P)
         IN  IF t.ok THEN POk(t.P, Node("Prts", StringNode(t.token.text), Nil))
             ELSE PErr(t.P, Eof)
    ELSE LET e == parse_rule("parse_expr", Nil, 0, P)
         IN  IF e.ok THEN POk(e.P, Node("Prti", e.node, Nil)) ELSE e

\* SyntaxAnalyzer::parse_prt_list
parse_prt_list(P) ==
    LET item == parse_rule("PrtItem", Nil, 0, P)
    IN  IF ~item.ok THEN item
        ELSE PrtListLoop(item.P, Node("Sequence", Nil, item.node))

PrtListLoop(P, lhs) ==
    IF P.next_token.kind = "Comma"
    THEN LET t == read_token(P)
             item == parse_rule("PrtItem", Nil, 0, t.P)
         IN  IF ~t.ok THEN PErr(t.P, Eof)
             ELSE IF ~item.ok THEN item
             ELSE PrtListLoop(item.P, Node("Sequence", lhs, item.node))
    ELSE POk(P, lhs)

\* SyntaxAnalyzer::parse_paren_expr
parse_paren_expr(P) ==
    LET open == Expect(P, "LeftParen", "'(' is expected.")
        node == parse_rule("parse_expr", Nil, 0, open.P)
        close == Expect(node.P, "RightParen", "')' is expected.")
    IN  IF ~open.ok THEN open
        ELSE IF ~node.ok THEN node
        ELSE IF ~close.ok THEN close
        ELSE POk(close.P, node.node)

\* SyntaxAnalyzer::parse_expr
parse_expr(P) ==
    LET lhs == parse_rule("parse_primary", Nil, 0, P)
    IN  IF ~lhs.ok THEN lhs ELSE parse_rule("parse_expr_body", lhs.node, 0, lhs.P)

\* SyntaxAnalyzer::parse_expr_body
parse_expr_body(P, node, min_precedence) == ExprBodyLoop(P, node, min_precedence)

\* the outer loop of parse_expr_body
ExprBodyLoop(P, lhs, min_precedence) ==
    LET op == operator(P.next_token.kind)
        t == read_token(P)
        first == parse_rule("parse_primary", Nil, 0, t.P)
        rhs == RhsLoop(first.P, first.node, op)
    IN  IF op.precedence < min_precedence THEN POk(P, lhs)
        ELSE IF ~t.ok THEN PErr(t.P, Eof)
        ELSE IF ~first.ok THEN first
        ELSE IF ~rhs.ok THEN rhs
        ELSE ExprBodyLoop(rhs.P, Node(op.kind, lhs, rhs.node), min_precedence)

\* the inner loop of parse_expr_body, descending at equal precedence as well
RhsLoopAtEqual(P, rhs, op) ==
    LET next_op == operator(P.next_token.kind)
        deeper == parse_rule("parse_expr_body", rhs, next_op.precedence, P)
    IN  IF next_op.precedence >= op.precedence
        THEN IF ~deeper.ok THEN deeper ELSE RhsLoop(deeper.P, deeper.node, op)
        ELSE POk(P, rhs)

\* the inner loop of parse_expr_body
RhsLoop(P, rhs, op) ==
    LET next_op == operator(P.next_token.kind)
        deeper == parse_rule("parse_expr_body", rhs, next_op.precedence, P)
    IN  IF next_op.precedence > op.precedence
           \/ (next_op.precedence = op.precedence /\ next_op.right_associative)
        THEN IF ~deeper.ok THEN deeper ELSE RhsLoop(deeper.P, deeper.node, op)
        ELSE POk(P, rhs)

\* SyntaxAnalyzer::parse_primary
parse_primary(P) ==
    LET t == read_token(P)
        kind == t.token.kind
    IN  IF ~t.ok THEN PErr(t.P, Eof)
        ELSE CASE kind = "Identifier" -> POk(t.P, IdentifierNode(t.token.text))
               [] kind = "Integer" -> POk(t.P, IntegerNode(t.token.value))
               [] kind = "LeftParen" ->
                     LET node == parse_rule("parse_expr", Nil, 0, t.P)
                         close == Expect(node.P, "RightParen", "')' is expected.")
                     IN  IF ~node.ok THEN node
                         ELSE IF ~close.ok THEN close
                         ELSE POk(close.P, node.node)
               [] kind = "OpAdd" -> parse_rule("parse_primary", Nil, 0, t.P)
               [] kind = "OpSubtract" ->
                     LET operand == parse_rule("parse_primary", Nil, 0, t.P)
                     IN  IF operand.ok
                         THEN POk(operand.P, Node("Negate", operand.node, Nil))
                         ELSE operand
               [] kind = "OpNot" ->
                     LET operand == parse_rule("parse_primary", Nil, 0, t.P)
                     IN  IF operand.ok
                         THEN POk(operand.P, Node("Not", operand.node, Nil))
                         ELSE operand
               [] OTHER -> PErr(t.P, "invalid primary")

parse_rule(rule, node, min_precedence, P) ==
    CASE rule = "parse_stmt_list" -> parse_stmt_list(P)
      [] rule = "parse_stmt" -> parse_stmt(P)
      [] rule = "parse_assign_stmt" -> parse_assign_stmt(P)
      [] rule = "parse_while_stmt" -> parse_while_stmt(P)
      [] rule = "parse_if_stmt" -> parse_if_stmt(P)
      [] rule = "parse_print_stmt" -> parse_print_stmt(P)
      [] rule = "parse_putc_stmt" -> parse_putc_stmt(P)
      [] rule = "PrtItem" -> PrtItem(P)
      [] rule = "parse_prt_list" -> parse_prt_list(P)
      [] rule = "parse_paren_expr" -> parse_paren_expr(P)
      [] rule = "parse_expr" -> parse_expr(P)
      [] rule = "parse_expr_body" -> parse_expr_body(P, node, min_precedence)
      [] rule = "parse_primary" -> parse_primary(P)

\* SyntaxAnalyzer::parse
parse(tokens) ==
    IF tokens = <<>> THEN POk([next_token |-> NoToken, token_iter |-> <<>>],
                              Node("Sequence", Nil, Nil))
    ELSE parse_rule("parse_stmt_list", Nil, 0,
                    [next_token |-> Head(tokens), token_iter |-> Tail(tokens)])

\* create_tokens / analyze: next_token until End_of_input or an error
RECURSIVE TokenizeLoop(_, _)
TokenizeLoop(L, tokens) ==
    LET r == next_token(L)
    IN  IF ~r.ok THEN [ok |-> FALSE, tokens |-> tokens]
        ELSE IF r.token.kind = "EndOfInput"
        THEN [ok |-> TRUE, tokens |-> Append(tokens, r.token)]
        ELSE TokenizeLoop(r.lex, Append(tokens, r.token))

create_tokens(s) == TokenizeLoop(LexNew(s), <<>>)

----------------------------------------------------------------------------
(* The code generator: src/code_generator/src/lib.rs and instruction.rs *)

\* Instruction::new; value is the operand of Fetch, Store, Push, Jump and Jz
Instruction(kind, value, address) == [kind |-> kind, value |-> value, address |-> address]

\* the CodeGenerator that generate starts from
NewGenerator ==
    [data_addr |-> <<>>, string_pool |-> <<>>, pc |-> 0, instructions |-> <<>>]

\* Result<()> together with the generator the call leaves behind; status is
\* "ok", "err" or "panic" (an unwrap of a missing child)
GOk(G) == [status |-> "ok", G |-> G, err |-> ""]
GErr(G, msg) == [status |-> "err", G |-> G, err |-> msg]
GPanic(G) == [status |-> "panic", G |-> G, err |-> "unwrap on None"]

\* an Emit that advances pc by one byte whatever the instruction is
EmitOneByte(G, kind, value, size) ==
    [G EXCEPT !.instructions = Append(@, Instruction(kind, value, G.pc)),
              !.pc = @ + 1]

\* pushes an instruction at pc and advances pc by its size
Emit(G, kind, value, size) ==
    [G EXCEPT !.instructions = Append(@, Instruction(kind, value, G.pc)),
              !.pc = @ + size]

\* CodeGenerator::generate_fetch
generate_fetch(G, identifier) ==
    IF identifier \in DOMAIN G.data_addr
    THEN GOk(Emit(G, "Fetch", G.data_addr[identifier], 1 + 4))
    ELSE GErr(G, "unknown identifier")

\* CodeGenerator::generate_integer
generate_integer(G, value) == GOk(Emit(G, "Push", value, 1 + 4))

\* a backpatch that stores the address of the target
backpatch_absolute(G, instruction_index) ==
    [G EXCEPT !.instructions[instruction_index].value = G.pc]

\* CodeGenerator::backpatch: the operand of the jump becomes the distance
\* from the byte after its opcode to pc
backpatch(G, instruction_index) ==
    [G EXCEPT !.instructions[instruction_index].value =
                  G.pc - (G.instructions[instruction_index].address + 1)]

\* CodeGenerator::intern_string: the index of s in the pool, and the pool
RECURSIVE PoolIndex(_, _, _)
PoolIndex(pool, s, i) ==
    IF i > Len(pool) THEN -1
    ELSE IF pool[i] = s THEN i - 1
    ELSE PoolIndex(pool, s, i + 1)

\* an intern_string that never looks the string up
intern_string_always_push(G, s) ==
    [G |-> [G EXCEPT !.string_pool = Append(@, s)], addr |-> Len(G.string_pool)]

intern_string(G, s) ==
    IF PoolIndex(G.string_pool, s, 1) >= 0
    THEN [G |-> G, addr |-> PoolIndex(G.string_pool, s, 1)]
    ELSE [G |-> [G EXCEPT !.string_pool = Append(@, s)],
          addr |-> Len(G.string_pool)]

\* CodeGenerator::intern: the address of name, the next free one when the
\* name is new
\* an intern that gives a name a new address at every store
intern_last_wins(G, name) ==
    LET addr == Cardinality(DOMAIN G.data_addr)
    IN  [G |-> [G EXCEPT !.data_addr = (name :> addr) @@ @], addr |-> addr]

intern(G, name) ==
    IF name \in DOMAIN G.data_addr
    THEN [G |-> G, addr |-> G.data_addr[name]]
    ELSE LET addr == Cardinality(DOMAIN G.data_addr)
         IN  [G |-> [G EXCEPT !.data_addr = @ @@ (name :> addr)], addr |-> addr]

BinaryInstruction(kind) ==
    CASE kind = "Multiply" -> "Mul"
      [] kind = "Divide" -> "Div"
      [] kind = "Mod" -> "Mod"
      [] kind = "Add" -> "Add"
      [] kind = "Subtract" -> "Sub"
      [] kind = "Less" -> "Lt"
      [] kind = "LessEqual" -> "Le"
      [] kind = "Greater" -> "Gt"
      [] kind = "GreaterEqual" -> "Ge"
      [] kind = "Equal" -> "Eq"
      [] kind = "NotEqual" -> "Ne"
      [] kind = "And" -> "And"
      [] kind = "Or" -> "Or"

RECURSIVE generate_body(_, _), generate_if(_, _), generate_while(_, _),
          generate_prts(_, _), generate_prtc(_, _), generate_prti(_, _),
          generate_sequence(_, _), generate_assign(_, _),
          generate_unary_op(_, _), generate_binary_op(_, _)

\* CodeGenerator::generate_body
generate_body(G, ast) ==
    CASE ast.kind = "Identifier" -> generate_fetch(G, ast.text)
      [] ast.kind = "Integer" -> generate_integer(G, ast.value)
      [] ast.kind = "Sequence" -> generate_sequence(G, ast)
      [] ast.kind = "If" -> generate_if(G, ast)
      [] ast.kind = "Prtc" -> generate_prtc(G, ast)
      [] ast.kind = "Prts" -> generate_prts(G, ast)
      [] ast.kind = "Prti" -> generate_prti(G, ast)
      [] ast.kind = "While" -> generate_while(G, ast)
      [] ast.kind = "Assign" -> generate_assign(G, ast)
      [] ast.kind \in UnaryKinds -> generate_unary_op(G, ast)
      [] ast.kind \in BinaryKinds -> generate_binary_op(G, ast)
      [] OTHER -> GErr(G, "unknown instruction")

\* a generate_if that patches the jz before it emits the jmp over the else
\* branch
generate_if_patch_early(G, ast) ==
    LET condition == generate_body(G, ast.lhs)
        G1 == Emit(condition.G, "Jz", 0, 1 + 4)
        jump_if_clause_idx == Len(G1.instructions)
        body == ast.rhs
        if_clause == generate_body(G1, body.lhs)
        G2 == Emit(backpatch(if_clause.G, jump_if_clause_idx), "Jump", 0, 1 + 4)
        jump_instruction_idx == Len(G2.instructions)
        else_clause == generate_body(G2, body.rhs)
    IN  IF ast.lhs = Nil THEN GPanic(G)
        ELSE IF condition.status # "ok" THEN condition
        ELSE IF body = Nil \/ body.lhs = Nil THEN GPanic(G1)
        ELSE IF if_clause.status # "ok" THEN if_clause
        ELSE IF body.rhs = Nil THEN GOk(backpatch(if_clause.G, jump_if_clause_idx))
        ELSE IF else_clause.status # "ok" THEN else_clause
        ELSE GOk(backpatch(else_clause.G, jump_instruction_idx))

\* CodeGenerator::generate_if
generate_if(G, ast) ==
    LET condition == generate_body(G, ast.lhs)
        G1 == Emit(condition.G, "Jz", 0, 1 + 4)
        jump_if_clause_idx == Len(G1.instructions)
        body == ast.rhs
        if_clause == generate_body(G1, body.lhs)
        G2 == Emit(if_clause.G, "Jump", 0, 1 + 4)
        jump_instruction_idx == Len(G2.instructions)
        else_clause == generate_body(backpatch(G2, jump_if_clause_idx), body.rhs)
    IN  IF ast.lhs = Nil THEN GPanic(G)
        ELSE IF condition.status # "ok" THEN condition
        ELSE IF body = Nil \/ body.lhs = Nil THEN GPanic(G1)
        ELSE IF if_clause.status # "ok" THEN if_clause
        ELSE IF body.rhs = Nil THEN GOk(backpatch(if_clause.G, jump_if_clause_idx))
        ELSE IF else_clause.status # "ok" THEN else_clause
        ELSE GOk(backpatch(else_clause.G, jump_instruction_idx))

\* a generate_while whose jmp goes back to the body, not to the condition
generate_while_to_body(G, ast) ==
    LET condition == generate_body(G, ast.lhs)
        G1 == Emit(condition.G, "Jz", 0, 1 + 4)
        entry_index == Len(G1.instructions)
        body == generate_body(G1, ast.rhs)
        G2 == Emit(body.G, "Jump", G1.pc - (body.G.pc + 1), 1 + 4)
    IN  IF ast.lhs = Nil THEN GPanic(G)
        ELSE IF condition.status # "ok" THEN condition
        ELSE IF ast.rhs = Nil THEN GPanic(G1)
        ELSE IF body.status # "ok" THEN body
        ELSE GOk(backpatch(G2, entry_index))

\* CodeGenerator::generate_while
generate_while(G, ast) ==
    LET entry_address == G.pc
        condition == generate_body(G, ast.lhs)
        G1 == Emit(condition.G, "Jz", 0, 1 + 4)
        entry_index == Len(G1.instructions)
        body == generate_body(G1, ast.rhs)
        G2 == Emit(body.G, "Jump", entry_address - (body.G.pc + 1), 1 + 4)
    IN  IF ast.lhs = Nil THEN GPanic(G)
        ELSE IF condition.status # "ok" THEN condition
        ELSE IF ast.rhs = Nil THEN GPanic(G1)
        ELSE IF body.status # "ok" THEN body
        ELSE GOk(backpatch(G2, entry_index))

\* CodeGenerator::generate_prts
generate_prts(G, ast) ==
    LET interned == intern_string(G, ast.lhs.text)
    IN  IF ast.lhs = Nil THEN GPanic(G)
        ELSE IF ast.lhs.kind # "String" THEN GErr(G, "string expected")
        ELSE GOk(Emit(Emit(interned.G, "Push", interned.addr, 1 + 4), "Prts", 0, 1))

\* CodeGenerator::generate_prtc
generate_prtc(G, ast) ==
    LET operand == generate_body(G, ast.lhs)
    IN  IF ast.lhs = Nil THEN GPanic(G)
        ELSE IF operand.status # "ok" THEN operand
        ELSE GOk(Emit(operand.G, "Prtc", 0, 1))

\* CodeGenerator::generate_prti
generate_prti(G, ast) ==
    LET operand == generate_body(G, ast.lhs)
    IN  IF ast.lhs = Nil THEN GPanic(G)
        ELSE IF operand.status # "ok" THEN operand
        ELSE GOk(Emit(operand.G, "Prti", 0, 1))

\* CodeGenerator::generate_sequence
generate_sequence(G, ast) ==
    LET left == IF ast.lhs = Nil THEN GOk(G) ELSE generate_body(G, ast.lhs)
    IN  IF left.status # "ok" THEN left
        ELSE IF ast.rhs = Nil THEN left
        ELSE generate_body(left.G, ast.rhs)

\* a generate_assign that interns the name before it generates the
\* right-hand side
generate_assign_intern_first(G, ast) ==
    LET interned == intern(G, ast.lhs.text)
        value == generate_body(interned.G, ast.rhs)
    IN  IF ast.lhs = Nil \/ ast.rhs = Nil THEN GPanic(G)
        ELSE IF ast.lhs.kind # "Identifier"
        THEN (IF generate_body(G, ast.rhs).status # "ok" THEN generate_body(G, ast.rhs)
              ELSE GErr(generate_body(G, ast.rhs).G, "identifier is expected"))
        ELSE IF value.status # "ok" THEN value
        ELSE GOk(Emit(value.G, "Store", interned.addr, 1 + 4))

\* CodeGenerator::generate_assign: the right-hand side is generated before
\* the name is interned
generate_assign(G, ast) ==
    LET value == generate_body(G, ast.rhs)
        interned == intern(value.G, ast.lhs.text)
    IN  IF ast.lhs = Nil \/ ast.rhs = Nil THEN GPanic(G)
        ELSE IF value.status # "ok" THEN value
        ELSE IF ast.lhs.kind # "Identifier" THEN GErr(value.G, "identifier is expected")
        ELSE GOk(Emit(interned.G, "Store", interned.addr, 1 + 4))

\* CodeGenerator::generate_unary_op
generate_unary_op(G, ast) ==
    LET operand == generate_body(G, ast.lhs)
    IN  IF ast.lhs = Nil THEN GPanic(G)
        ELSE IF operand.status # "ok" THEN operand
        ELSE GOk(Emit(operand.G, IF ast.kind = "Negate" THEN "Neg" ELSE "Not", 0, 1))

\* a generate_binary_op that leaves out the code of the right operand
generate_binary_op_left_only(G, ast) ==
    LET left == generate_body(G, ast.lhs)
    IN  IF ast.lhs = Nil THEN GPanic(G)
        ELSE IF left.status # "ok" THEN left
        ELSE IF ast.rhs = Nil THEN GPanic(left.G)
        ELSE GOk(Emit(left.G, BinaryInstruction(ast.kind), 0, 1))

\* CodeGenerator::generate_binary_op
generate_binary_op(G, ast) ==
    LET left == generate_body(G, ast.lhs)
        right == generate_body(left.G, ast.rhs)
    IN  IF ast.lhs = Nil THEN GPanic(G)
        ELSE IF left.status # "ok" THEN left
        ELSE IF ast.rhs = Nil THEN GPanic(left.G)
        ELSE IF right.status # "ok" THEN right
        ELSE GOk(Emit(right.G, BinaryInstruction(ast.kind), 0, 1))

\* the mnemonics of impl fmt::Display for Instruction
Mnemonic(kind) ==
    CASE kind = "Fetch" -> <<"f", "e", "t", "c", "h">>
      [] kind = "Store" -> <<"s", "t", "o", "r", "e">>
      [] kind = "Push" -> <<"p", "u", "s", "h">>
      [] kind = "Jump" -> <<"j", "m", "p">>
      [] kind = "Jz" -> <<"j", "z">>
      [] kind = "Add" -> <<"a", "d", "d">>
      [] kind = "Sub" -> <<"s", "u", "b">>
      [] kind = "Mul" -> <<"m", "u", "l">>
      [] kind = "Div" -> <<"d", "i", "v">>
      [] kind = "Mod" -> <<"m", "o", "d">>
      [] kind = "Lt" -> <<"l", "t">>
      [] kind = "Gt" -> <<"g", "t">>
      [] kind = "Le" -> <<"l", "e">>
      [] kind = "Ge" -> <<"g", "e">>
      [] kind = "Eq" -> <<"e", "q">>
      [] kind = "Ne" -> <<"n", "e">>
      [] kind = "And" -> <<"a", "n", "d">>
      [] kind = "Or" -> <<"o", "r">>
      [] kind = "Neg" -> <<"n", "e", "g">>
      [] kind = "Not" -> <<"n", "o", "t">>
      [] kind = "Prtc" -> <<"p", "r", "t", "c">>
      [] kind = "Prti" -> <<"p", "r", "t", "i">>
      [] kind = "Prts" -> <<"p", "r", "t", "s">>
      [] kind = "Halt" -> <<"h", "a", "l", "t">>

\* "{}" of a u32 given as the i32 with the same bits
U32Text(v) ==
    IF v >= 0 THEN NatText(v)
    ELSE LET w == (v + I32Max) + 1
             units == (w % 10) + 8
         IN  NatText((w \div 10) + 214748364 + (units \div 10))
                 \o <<DigitChar(units % 10)>>

\* a Display whose third field of a jump is measured from the address of
\* the next instruction
InstructionDisplayFromNext(i) ==
    NatText(i.address) \o <<SP>> \o Mnemonic(i.kind) \o
    (CASE i.kind \in {"Fetch", "Store"} -> <<SP, "[">> \o U32Text(i.value) \o <<"]">>
       [] i.kind = "Push" -> <<SP>> \o IntText(i.value)
       [] i.kind \in {"Jump", "Jz"} ->
             <<SP, "(">> \o IntText(i.value) \o <<")", SP>>
                 \o U32Text(i.address + 5 + i.value)
       [] OTHER -> <<>>)

\* impl fmt::Display for Instruction; the third field of a jump is
\* (address + 1).wrapping_add(value)
InstructionDisplay(i) ==
    NatText(i.address) \o <<SP>> \o Mnemonic(i.kind) \o
    (CASE i.kind \in {"Fetch", "Store"} -> <<SP, "[">> \o U32Text(i.value) \o <<"]">>
       [] i.kind = "Push" -> <<SP>> \o IntText(i.value)
       [] i.kind \in {"Jump", "Jz"} ->
             <<SP, "(">> \o IntText(i.value) \o <<")", SP>>
                 \o U32Text(i.address + 1 + i.value)
       [] OTHER -> <<>>)

\* Vec<String>::join("\n")
RECURSIVE JoinLines(_)
JoinLines(ls) ==
    IF ls = <<>> THEN <<>>
    ELSE IF Len(ls) = 1 THEN ls[1]
    ELSE ls[1] \o <<NL>> \o JoinLines(Tail(ls))

\* the text generate builds from the generator after the walk
Listing(G) ==
    <<"D", "a", "t", "a", "s", "i", "z", "e", ":", SP>> \o NatText(Cardinality(DOMAIN G.data_addr))
        \o <<SP, "S", "t", "r", "i", "n", "g", "s", ":", SP>> \o NatText(Len(G.string_pool)) \o <<NL>>
        \o (IF Len(G.string_pool) > 0
            THEN JoinLines([i \in 1 .. Len(G.string_pool) |-> DebugStr(G.string_pool[i])])
                     \o <<NL>>
            ELSE <<>>)
        \o JoinLines([i \in 1 .. Len(G.instructions) |->
                          InstructionDisplay(G.instructions[i])])

\* a generate that emits the Halt before the walk
generate_halt_first(ast) ==
    LET walk == generate_body(Emit(NewGenerator, "Halt", 0, 1), ast)
    IN  IF walk.status # "ok"
        THEN [status |-> walk.status, err |-> walk.err, G |-> walk.G, code |-> <<>>]
        ELSE [status |-> "ok", err |-> "", G |-> walk.G, code |-> Listing(walk.G)]

\* CodeGenerator::generate: the walk, then the Halt at pc, then the text
generate(ast) ==
    LET walk == generate_body(NewGenerator, ast)
        G == Emit(walk.G, "Halt", 0, 0)
    IN  IF walk.status # "ok"
        THEN [status |-> walk.status, err |-> walk.err, G |-> walk.G, code |-> <<>>]
        ELSE [status |-> "ok", err |-> "", G |-> G, code |-> Listing(G)]

----------------------------------------------------------------------------
(* i32 arithmetic: the operators + - * / % and unary - of Rust on i32.  Each
   result is [value, overflow]: value is the two's complement result,
   overflow says that the exact result does not fit 32 bits (a build with
   overflow checks panics there, a build without them keeps value).  The
   quotient truncates toward zero and the remainder has the sign of the
   dividend; both always panic on a zero divisor and on I32Min / -1. *)

Arith(value, overflow) == [value |-> value, overflow |-> overflow]

Abs(a) == IF a < 0 THEN 0 - a ELSE a

i32_add(a, b) ==
    IF a >= 0 /\ b >= 0 /\ a > I32Max - b
    THEN Arith((a + I32Min) + (b + I32Min), TRUE)
    ELSE IF a < 0 /\ b < 0 /\ a < I32Min - b
    THEN Arith(((a + I32Max) + 1) + ((b + I32Max) + 1), TRUE)
    ELSE Arith(a + b, FALSE)

i32_sub(a, b) ==
    IF a >= 0 /\ b < 0 /\ a > I32Max + b
    THEN Arith((a + I32Min) - ((b + I32Max) + 1), TRUE)
    ELSE IF a < 0 /\ b >= 0 /\ a < I32Min + b
    THEN Arith(((a + I32Max) + 1) - (b + I32Min), TRUE)
    ELSE Arith(a - b, FALSE)

i32_neg(a) == IF a = I32Min THEN Arith(I32Min, TRUE) ELSE Arith(0 - a, FALSE)

\* the upper and the lower 16 bits of the two's complement of a
Hi16(a) ==
    IF a >= 0 THEN a \div 65536 ELSE (((a + I32Max) + 1) \div 65536) + 32768
Lo16(a) == IF a >= 0 THEN a % 65536 ELSE ((a + I32Max) + 1) % 65536

\* x * y modulo 2^16, for x and y below 2^16
MulMod16(x, y) == (x * (y % 256) + ((x * (y \div 256)) % 256) * 256) % 65536

\* a * b modulo 2^32, as an i32
WrappingMul(a, b) ==
    LET p0 == Lo16(a) * (Lo16(b) % 256)
        p1 == Lo16(a) * (Lo16(b) \div 256)
        t == p0 + (p1 % 256) * 256
        lo == t % 65536
        carry == (t \div 65536) + (p1 \div 256)
        hi == (carry + MulMod16(Hi16(a), Lo16(b)) + MulMod16(Lo16(a), Hi16(b))) % 65536
    IN  IF hi >= 32768 THEN ((hi - 32768) * 65536 + lo) + I32Min
        ELSE hi * 65536 + lo

\* whether the exact product leaves the i32 range
MulOverflows(a, b) ==
    IF a = 0 \/ b = 0 THEN FALSE
    ELSE IF a = I32Min THEN b # 1
    ELSE IF b = I32Min THEN a # 1
    ELSE IF (a < 0) = (b < 0) THEN Abs(a) > I32Max \div Abs(b)
    ELSE IF Abs(b) = 1 THEN FALSE
    ELSE Abs(a) > (I32Max \div Abs(b))
                      + (IF I32Max % Abs(b) = Abs(b) - 1 THEN 1 ELSE 0)

i32_mul(a, b) ==
    IF MulOverflows(a, b) THEN Arith(WrappingMul(a, b), TRUE)
    ELSE Arith(a * b, FALSE)

\* whether a / b and a % b panic in every build
DivPanics(a, b) == b = 0 \/ (a = I32Min /\ b = 0 - 1)

\* a / b for b # 0 and not I32Min / -1
i32_div(a, b) ==
    IF a >= 0 /\ b > 0 THEN a \div b
    ELSE IF a < 0 /\ b < 0
    THEN (IF b = I32Min THEN (IF a = I32Min THEN 1 ELSE 0)
          ELSE IF a = I32Min
          THEN (I32Max \div (0 - b)) + (IF I32Max % (0 - b) = (0 - b) - 1 THEN 1 ELSE 0)
          ELSE (0 - a) \div (0 - b))
    ELSE IF a < 0
    THEN LET m == 0 - (a + 1)
         IN  (0 - (m \div b)) - (IF m % b = b - 1 THEN 1 ELSE 0)
    ELSE IF b = I32Min THEN 0
    ELSE 0 - (a \div (0 - b))

\* a % b for b # 0 and not I32Min % -1
i32_rem(a, b) == a - i32_div(a, b) * b

\* std::char::from_u32(v as u32): a code point that is no surrogate
IsChar(v) == v >= 0 /\ v <= 1114111 /\ ~(v >= 55296 /\ v <= 57343)

\* the UTF-8 bytes of a code point (char::to_string().as_bytes())
Utf8(cp) ==
    IF cp < 128 THEN <<cp>>
    ELSE IF cp < 2048 THEN <<192 + (cp \div 64), 128 + (cp % 64)>>
    ELSE IF cp < 65536
    THEN <<224 + (cp \div 4096), 128 + ((cp \div 64) % 64), 128 + (cp % 64)>>
    ELSE <<240 + (cp \div 262144), 128 + ((cp \div 4096) % 64),
           128 + ((cp \div 64) % 64), 128 + (cp % 64)>>

\* str::as_bytes
RECURSIVE StrBytes(_)
StrBytes(s) ==
    IF s = <<>> THEN <<>> ELSE Utf8(CodePoint(Head(s))) \o StrBytes(Tail(s))

\* i32::to_ne_bytes on a little-endian target
to_ne_bytes(v) ==
    LET w == IF v >= 0 THEN v ELSE (v + I32Max) + 1
    IN  <<w % 256, (w \div 256) % 256, (w \div 65536) % 256,
          (w \div 16777216) + (IF v >= 0 THEN 0 ELSE 128)>>

\* i32::from_ne_bytes on a little-endian target
from_ne_bytes(b) ==
    IF b[4] >= 128
    THEN ((b[4] - 128) * 16777216 + b[3] * 65536 + b[2] * 256 + b[1]) + I32Min
    ELSE b[4] * 16777216 + b[3] * 65536 + b[2] * 256 + b[1]

----------------------------------------------------------------------------
(* The virtual machine: src/virtual_machine_interpreter/src/lib.rs *)

FETCH == 0
STORE == 1
PUSH == 2
ADD == 3
SUB == 4
MUL == 5
DIV == 6
MOD == 7
LT == 8
GT == 9
LE == 10
GE == 11
EQ == 12
NE == 13
AND == 14
OR == 15
NEG == 16
NOT == 17
JMP == 18
JZ == 19
PRTC == 20
PRTS == 21
PRTI == 22
HALT == 23

STACK_SIZE == 1000

\* str::split_whitespace
RECURSIVE SplitWhitespace(_)
SplitWhitespace(s) ==
    LET e == next_element(s)
    IN  IF e.element = <<>> THEN <<>>
        ELSE <<e.element>> \o SplitWhitespace(e.rest)

\* VirtualMachineInterpreter::read_header
read_header(line) ==
    LET sizes == SplitWhitespace(Trim(line))
        data_size == ParseUsize(sizes[2])
        string_size == ParseUsize(sizes[4])
    IN  IF Len(sizes) # 4
        THEN [ok |-> FALSE, err |-> "invalid datasize format.", data_size |-> 0,
              string_size |-> 0]
        ELSE IF ~data_size.ok
        THEN [ok |-> FALSE, err |-> "invalid data size", data_size |-> 0,
              string_size |-> 0]
        ELSE IF ~string_size.ok
        THEN [ok |-> FALSE, err |-> "invalid string data size", data_size |-> 0,
              string_size |-> 0]
        ELSE [ok |-> TRUE, err |-> "", data_size |-> data_size.value,
              string_size |-> string_size.value]

\* the loop of VirtualMachineInterpreter::read_string, after the opening quote
RECURSIVE VmStringLoop(_, _)
VmStringLoop(rest, value) ==
    IF rest = <<>> THEN [ok |-> FALSE, err |-> "\" not found", value |-> value]
    ELSE IF Head(rest) = DQ THEN [ok |-> TRUE, err |-> "", value |-> value]
    ELSE IF Head(rest) = BSL
    THEN IF Len(rest) >= 2 /\ rest[2] = "n"
         THEN VmStringLoop(Tail(Tail(rest)), Append(value, NL))
         ELSE IF Len(rest) >= 2 /\ rest[2] = BSL
         THEN VmStringLoop(Tail(Tail(rest)), Append(value, BSL))
         ELSE [ok |-> FALSE, err |-> "invalid escape", value |-> value]
    ELSE VmStringLoop(Tail(rest), Append(value, Head(rest)))

\* VirtualMachineInterpreter::read_string
vm_read_string(s) ==
    IF s = <<>> \/ Head(s) # DQ
    THEN [ok |-> FALSE, err |-> "invalid string", value |-> <<>>]
    ELSE VmStringLoop(Tail(s), <<>>)

\* Result of read_integer and read_instruction: status is "ok", "err" or
\* "panic" (an index or a slice out of range), dst the bytes so far
Asm(status, err, dst) == [status |-> status, err |-> err, dst |-> dst]

\* VirtualMachineInterpreter::read_integer
read_integer(s, dst) ==
    IF ParseI32(s).ok THEN Asm("ok", "", dst \o to_ne_bytes(ParseI32(s).value))
    ELSE Asm("err", "cannot convert to integer", dst)

\* the operand mnemonic[2] without its first and its last character
Bracketed(mnemonic, dst) ==
    IF Len(mnemonic) < 3 \/ Len(mnemonic[3]) < 2 THEN Asm("panic", "", dst)
    ELSE read_integer(SubSeq(mnemonic[3], 2, Len(mnemonic[3]) - 1), dst)

SimpleOpcode(m) ==
    CASE m = <<"a", "d", "d">> -> ADD
      [] m = <<"s", "u", "b">> -> SUB
      [] m = <<"m", "u", "l">> -> MUL
      [] m = <<"d", "i", "v">> -> DIV
      [] m = <<"m", "o", "d">> -> MOD
      [] m = <<"l", "t">> -> LT
      [] m = <<"g", "t">> -> GT
      [] m = <<"l", "e">> -> LE
      [] m = <<"g", "e">> -> GE
      [] m = <<"e", "q">> -> EQ
      [] m = <<"n", "e">> -> NE
      [] m = <<"a", "n", "d">> -> AND
      [] m = <<"o", "r">> -> OR
      [] m = <<"n", "e", "g">> -> NEG
      [] m = <<"n", "o", "t">> -> NOT
      [] m = <<"p", "r", "t", "c">> -> PRTC
      [] m = <<"p", "r", "t", "s">> -> PRTS
      [] m = <<"p", "r", "t", "i">> -> PRTI
      [] m = <<"h", "a", "l", "t">> -> HALT
      [] OTHER -> -1

\* VirtualMachineInterpreter::read_instruction
read_instruction(s, dst) ==
    LET mnemonic == SplitWhitespace(s)
        m == mnemonic[2]
    IN  IF Len(mnemonic) = 1 THEN Asm("err", "invalid code", dst)
        ELSE IF Len(mnemonic) = 0 THEN Asm("panic", "", dst)
        ELSE CASE m = <<"f", "e", "t", "c", "h">> -> Bracketed(mnemonic, Append(dst, FETCH))
               [] m = <<"s", "t", "o", "r", "e">> -> Bracketed(mnemonic, Append(dst, STORE))
               [] m = <<"p", "u", "s", "h">> ->
                     IF Len(mnemonic) < 3 THEN Asm("panic", "", Append(dst, PUSH))
                     ELSE read_integer(mnemonic[3], Append(dst, PUSH))
               [] m = <<"j", "m", "p">> -> Bracketed(mnemonic, Append(dst, JMP))
               [] m = <<"j", "z">> -> Bracketed(mnemonic, Append(dst, JZ))
               [] OTHER ->
                     IF SimpleOpcode(m) >= 0 THEN Asm("ok", "", Append(dst, SimpleOpcode(m)))
                     ELSE Asm("err", "illegal instruction", dst)

\* the string pool lines of assemble
RECURSIVE ReadPool(_, _, _)
ReadPool(lines, n, pool) ==
    IF n = 0 THEN [ok |-> TRUE, err |-> "", pool |-> pool, lines |-> lines]
    ELSE IF lines = <<>>
    THEN [ok |-> FALSE, err |-> "unexpected EOF", pool |-> pool, lines |-> lines]
    ELSE IF ~vm_read_string(Head(lines)).ok
    THEN [ok |-> FALSE, err |-> vm_read_string(Head(lines)).err, pool |-> pool,
          lines |-> lines]
    ELSE ReadPool(Tail(lines), n - 1, Append(pool, vm_read_string(Head(lines)).value))

\* the instruction lines of assemble; empty lines are skipped
RECURSIVE ReadCode(_, _)
ReadCode(lines, dst) ==
    IF lines = <<>> THEN Asm("ok", "", dst)
    ELSE IF Trim(Head(lines)) = <<>> THEN ReadCode(Tail(lines), dst)
    ELSE LET r == read_instruction(Trim(Head(lines)), dst)
         IN  IF r.status # "ok" THEN r ELSE ReadCode(Tail(lines), r.dst)

\* the machine before assemble has run
NoMachine ==
    [pc |-> 0, sp |-> 0, byte_code |-> <<>>, string_pool |-> <<>>, data |-> <<>>,
     stack |-> <<>>]

\* VirtualMachineInterpreter::assemble.  stack holds the slots below sp of
\* the STACK_SIZE slots; the machine never reads a slot at or above sp before
\* it has written it.
\* an assemble whose data area is not zeroed
assemble_without_zeroing(lines) ==
    LET header == read_header(Head(lines))
        pool == ReadPool(Tail(lines), header.string_size, <<>>)
        code == ReadCode(pool.lines, <<>>)
    IN  IF lines = <<>> THEN [status |-> "err", err |-> "empty file", vm |-> NoMachine]
        ELSE IF ~header.ok THEN [status |-> "err", err |-> header.err, vm |-> NoMachine]
        ELSE IF ~pool.ok THEN [status |-> "err", err |-> pool.err, vm |-> NoMachine]
        ELSE IF code.status # "ok"
        THEN [status |-> code.status, err |-> code.err, vm |-> NoMachine]
        ELSE [status |-> "ok", err |-> "",
              vm |-> [pc |-> 0, sp |-> 0, byte_code |-> code.dst,
                      string_pool |-> pool.pool,
                      data |-> [i \in 1 .. header.data_size |-> i],
                      stack |-> <<>>]]

assemble(lines) ==
    LET header == read_header(Head(lines))
        pool == ReadPool(Tail(lines), header.string_size, <<>>)
        code == ReadCode(pool.lines, <<>>)
    IN  IF lines = <<>> THEN [status |-> "err", err |-> "empty file", vm |-> NoMachine]
        ELSE IF ~header.ok THEN [status |-> "err", err |-> header.err, vm |-> NoMachine]
        ELSE IF ~pool.ok THEN [status |-> "err", err |-> pool.err, vm |-> NoMachine]
        ELSE IF code.status # "ok"
        THEN [status |-> code.status, err |-> code.err, vm |-> NoMachine]
        ELSE [status |-> "ok", err |-> "",
              vm |-> [pc |-> 0, sp |-> 0, byte_code |-> code.dst,
                      string_pool |-> pool.pool,
                      data |-> [i \in 1 .. header.data_size |-> 0],
                      stack |-> <<>>]]

\* one turn of the loop of execute: status is "running", "halted" (Ok),
\* "err" (Err) or "panic"; written holds the bytes written to out
Run(vm) == [status |-> "running", vm |-> vm, written |-> <<>>]
Write(vm, bytes) == [status |-> "running", vm |-> vm, written |-> bytes]
Stop(status, vm) == [status |-> status, vm |-> vm, written |-> <<>>]

\* whether get_integer can take its four bytes at pc
HasInteger(vm) == vm.pc >= 0 /\ vm.pc + 4 <= Len(vm.byte_code)

\* VirtualMachineInterpreter::get_integer
get_integer(vm) == from_ne_bytes(SubSeq(vm.byte_code, vm.pc + 1, vm.pc + 4))

\* stack[sp] = v; sp += 1
PushValue(vm, v) == [vm EXCEPT !.stack = Append(@, v), !.sp = @ + 1]

\* sp -= 1
PopValue(vm) == [vm EXCEPT !.stack = SubSeq(@, 1, Len(@) - 1), !.sp = @ - 1]

\* stack[sp - 2] = v; sp -= 1
ReplaceTwo(vm, v) ==
    [vm EXCEPT !.stack = Append(SubSeq(@, 1, Len(@) - 2), v), !.sp = @ - 1]

\* stack[sp - 1] = v
ReplaceTop(vm, v) == [vm EXCEPT !.stack[vm.sp] = v]

\* a jump that measures the offset from the byte after the immediate
JumpPastImmediate(vm, offset) == [vm EXCEPT !.pc = @ + 4 + offset]

\* pc = pc.wrapping_add(offset), at the time pc is the address of the
\* immediate
Jump(vm, offset) == [vm EXCEPT !.pc = @ + offset]

Bool(b) == IF b THEN 1 ELSE 0

\* an arithmetic result that is stored by store: a panic when it overflowed
\* in a build with overflow checks
Checked(vm, r, checks, store(_, _)) ==
    IF r.overflow /\ checks THEN Stop("panic", vm) ELSE Run(store(vm, r.value))

\* the instructions with two operands, taking the top of the stack as the
\* left operand
BinaryStepTopFirst(vm, opcode, checks) ==
    LET operand0 == vm.stack[vm.sp]
        operand1 == vm.stack[vm.sp - 1]
    IN  IF vm.sp < 2 THEN Stop("panic", vm)
        ELSE CASE opcode = ADD -> Checked(vm, i32_add(operand0, operand1), checks, ReplaceTwo)
               [] opcode = SUB -> Checked(vm, i32_sub(operand0, operand1), checks, ReplaceTwo)
               [] opcode = MUL -> Checked(vm, i32_mul(operand0, operand1), checks, ReplaceTwo)
               [] opcode = DIV ->
                     IF DivPanics(operand0, operand1) THEN Stop("panic", vm)
                     ELSE Run(ReplaceTwo(vm, i32_div(operand0, operand1)))
               [] opcode = MOD ->
                     IF DivPanics(operand0, operand1) THEN Stop("panic", vm)
                     ELSE Run(ReplaceTwo(vm, i32_rem(operand0, operand1)))
               [] opcode = LT -> Run(ReplaceTwo(vm, Bool(operand0 < operand1)))
               [] opcode = GT -> Run(ReplaceTwo(vm, Bool(operand0 > operand1)))
               [] opcode = LE -> Run(ReplaceTwo(vm, Bool(operand0 <= operand1)))
               [] opcode = GE -> Run(ReplaceTwo(vm, Bool(operand0 >= operand1)))
               [] opcode = EQ -> Run(ReplaceTwo(vm, Bool(operand0 = operand1)))
               [] opcode = NE -> Run(ReplaceTwo(vm, Bool(operand0 # operand1)))
               [] opcode = AND ->
                     Run(ReplaceTwo(vm, Bool(operand0 # 0 /\ operand1 # 0)))
               [] opcode = OR ->
                     Run(ReplaceTwo(vm, Bool(operand0 # 0 \/ operand1 # 0)))

\* the instructions with two operands, operand0 below operand1
BinaryStep(vm, opcode, checks) ==
    LET operand0 == vm.stack[vm.sp - 1]
        operand1 == vm.stack[vm.sp]
    IN  IF vm.sp < 2 THEN Stop("panic", vm)
        ELSE CASE opcode = ADD -> Checked(vm, i32_add(operand0, operand1), checks, ReplaceTwo)
               [] opcode = SUB -> Checked(vm, i32_sub(operand0, operand1), checks, ReplaceTwo)
               [] opcode = MUL -> Checked(vm, i32_mul(operand0, operand1), checks, ReplaceTwo)
               [] opcode = DIV ->
                     IF DivPanics(operand0, operand1) THEN Stop("panic", vm)
                     ELSE Run(ReplaceTwo(vm, i32_div(operand0, operand1)))
               [] opcode = MOD ->
                     IF DivPanics(operand0, operand1) THEN Stop("panic", vm)
                     ELSE Run(ReplaceTwo(vm, i32_rem(operand0, operand1)))
               [] opcode = LT -> Run(ReplaceTwo(vm, Bool(operand0 < operand1)))
               [] opcode = GT -> Run(ReplaceTwo(vm, Bool(operand0 > operand1)))
               [] opcode = LE -> Run(ReplaceTwo(vm, Bool(operand0 <= operand1)))
               [] opcode = GE -> Run(ReplaceTwo(vm, Bool(operand0 >= operand1)))
               [] opcode = EQ -> Run(ReplaceTwo(vm, Bool(operand0 = operand1)))
               [] opcode = NE -> Run(ReplaceTwo(vm, Bool(operand0 # operand1)))
               [] opcode = AND ->
                     Run(ReplaceTwo(vm, Bool(operand0 # 0 /\ operand1 # 0)))
               [] opcode = OR ->
                     Run(ReplaceTwo(vm, Bool(operand0 # 0 \/ operand1 # 0)))

\* the body of the loop of VirtualMachineInterpreter::execute: the opcode at
\* pc is fetched, pc moves past it, and the instruction runs.  A pc below 0
\* stands for the address that wrapping_add wrapped around to, which is
\* beyond every code image.
execute_step(vm0, checks) ==
    LET opcode == vm0.byte_code[vm0.pc + 1]
        vm == [vm0 EXCEPT !.pc = @ + 1]
        top == vm.stack[vm.sp]
    IN  IF vm0.pc < 0 \/ vm0.pc >= Len(vm0.byte_code) THEN Stop("panic", vm0)
        ELSE CASE opcode = FETCH ->
                     IF ~HasInteger(vm) THEN Stop("panic", vm)
                     ELSE IF get_integer(vm) < 0 \/ get_integer(vm) >= Len(vm.data)
                     THEN Stop("panic", vm)
                     ELSE IF vm.sp >= STACK_SIZE THEN Stop("panic", vm)
                     ELSE Run([PushValue(vm, vm.data[get_integer(vm) + 1])
                                   EXCEPT !.pc = @ + 4])
               [] opcode = STORE ->
                     IF vm.sp < 1 THEN Stop("panic", vm)
                     ELSE IF ~HasInteger(vm) THEN Stop("panic", PopValue(vm))
                     ELSE IF get_integer(vm) < 0 \/ get_integer(vm) >= Len(vm.data)
                     THEN Stop("panic", PopValue(vm))
                     ELSE Run([PopValue(vm) EXCEPT !.data[get_integer(vm) + 1] = top,
                                                   !.pc = @ + 4])
               [] opcode = PUSH ->
                     IF ~HasInteger(vm) THEN Stop("panic", vm)
                     ELSE IF vm.sp >= STACK_SIZE THEN Stop("panic", vm)
                     ELSE Run([PushValue(vm, get_integer(vm)) EXCEPT !.pc = @ + 4])
               [] opcode = JMP ->
                     IF ~HasInteger(vm) THEN Stop("panic", vm)
                     ELSE Run(Jump(vm, get_integer(vm)))
               [] opcode = JZ ->
                     IF vm.sp < 1 THEN Stop("panic", vm)
                     ELSE IF top = 0
                     THEN (IF ~HasInteger(vm) THEN Stop("panic", PopValue(vm))
                           ELSE Run(Jump(PopValue(vm), get_integer(vm))))
                     ELSE Run([PopValue(vm) EXCEPT !.pc = @ + 4])
               [] opcode \in {ADD, SUB, MUL, DIV, MOD, LT, GT, LE, GE, EQ, NE, AND, OR} ->
                     BinaryStep(vm, opcode, checks)
               [] opcode = NEG ->
                     IF vm.sp < 1 THEN Stop("panic", vm)
                     ELSE Checked(vm, i32_neg(top), checks, ReplaceTop)
               [] opcode = NOT ->
                     IF vm.sp < 1 THEN Stop("panic", vm)
                     ELSE Run(ReplaceTop(vm, Bool(top = 0)))
               [] opcode = PRTC ->
                     IF vm.sp < 1 THEN Stop("panic", vm)
                     ELSE IF ~IsChar(top) THEN Stop("err", vm)
                     ELSE Write(PopValue(vm), Utf8(top))
               [] opcode = PRTI ->
                     IF vm.sp < 1 THEN Stop("panic", vm)
                     ELSE Write(PopValue(vm), StrBytes(IntText(top)))
               [] opcode = PRTS ->
                     IF vm.sp < 1 THEN Stop("panic", vm)
                     ELSE IF top < 0 \/ top >= Len(vm.string_pool) THEN Stop("panic", vm)
                     ELSE Write(PopValue(vm), StrBytes(vm.string_pool[top + 1]))
               [] opcode = HALT -> Stop("halted", vm)
               [] OTHER -> Stop("err", vm)

----------------------------------------------------------------------------
(* The AST interpreter: src/ast_interpreter/src/lib.rs *)

\* enum Value, and the None of Option<Value>
ValueInteger(i) == [type |-> "Integer", int |-> i, str |-> <<>>]
ValueString(s) == [type |-> "String", int |-> 0, str |-> s]
NoValue == [type |-> "None", int |-> 0, str |-> <<>>]

\* Result<Option<Value>> together with the interpreter the call leaves
\* behind: I holds global, the bytes written to the writer and the number of
\* loop turns that are left.  status is "ok", "err", "panic" or "fuel" (the
\* loop turns ran out before the program ended).
IOk(I, value) == [status |-> "ok", value |-> value, I |-> I]
IStop(status, I) == [status |-> status, value |-> NoValue, I |-> I]

IWrite(I, bytes) == IOk([I EXCEPT !.out = @ \o bytes], NoValue)

\* an arithmetic result: a panic when it overflowed in a build with overflow
\* checks
IChecked(I, r) ==
    IF r.overflow /\ I.checks THEN IStop("panic", I) ELSE IOk(I, ValueInteger(r.value))

IBool(I, b) == IOk(I, ValueInteger(IF b THEN 1 ELSE 0))

\* ASTInterpreter::interpret_identifier: global[identifier] panics when the
\* name has no value
interpret_identifier(I, identifier) ==
    IF identifier \in DOMAIN I.global THEN IOk(I, I.global[identifier])
    ELSE IStop("panic", I)

RECURSIVE interpret_body(_, _), interpret_assign(_, _),
          interpret_binary_op(_, _), interpret_unary_op(_, _),
          interpret_if(_, _), interpret_while(_, _), interpret_prtc(_, _),
          interpret_prti(_, _), interpret_prts(_, _), Operand(_, _)

\* interpret_body(child)?.unwrap() on a child that is itself unwrapped
Operand(I, child) ==
    IF child = Nil THEN IStop("panic", I)
    ELSE LET r == interpret_body(I, child)
         IN  IF r.status = "ok" /\ r.value = NoValue THEN IStop("panic", r.I) ELSE r

\* ASTInterpreter::interpret_body
interpret_body(I, node) ==
    CASE node.kind = "Sequence" ->
             LET left == IF node.lhs = Nil THEN IOk(I, NoValue)
                         ELSE interpret_body(I, node.lhs)
                 right == IF node.rhs = Nil THEN IOk(left.I, NoValue)
                          ELSE interpret_body(left.I, node.rhs)
             IN  IF left.status # "ok" THEN left
                 ELSE IF right.status # "ok" THEN right
                 ELSE IOk(right.I, NoValue)
      [] node.kind = "Assign" -> interpret_assign(I, node)
      [] node.kind \in BinaryKinds -> interpret_binary_op(I, node)
      [] node.kind \in UnaryKinds -> interpret_unary_op(I, node)
      [] node.kind = "If" -> interpret_if(I, node)
      [] node.kind = "While" -> interpret_while(I, node)
      [] node.kind = "Identifier" -> interpret_identifier(I, node.text)
      [] node.kind = "Prtc" -> interpret_prtc(I, node)
      [] node.kind = "Prti" -> interpret_prti(I, node)
      [] node.kind = "Prts" -> interpret_prts(I, node)
      [] node.kind = "String" -> IOk(I, ValueString(node.text))
      [] node.kind = "Integer" -> IOk(I, ValueInteger(node.value))
      [] OTHER -> IStop("err", I)

\* ASTInterpreter::interpret_assign
interpret_assign(I, node) ==
    LET value == Operand(I, node.rhs)
    IN  IF node.lhs = Nil THEN IStop("panic", I)
        ELSE IF value.status # "ok" THEN value
        ELSE IF node.lhs.kind # "Identifier" THEN IStop("err", value.I)
        ELSE IOk([value.I EXCEPT !.global =
                      (node.lhs.text :> value.value) @@ value.I.global],
                 NoValue)

\* an interpret_binary_op that leaves the right operand of an And whose left
\* operand is 0, and of an Or whose left operand is not 0, unevaluated
interpret_binary_op_short_circuit(I, node) ==
    LET loperand == Operand(I, node.lhs)
        roperand == Operand(loperand.I, node.rhs)
        decided == /\ loperand.status = "ok"
                   /\ loperand.value.type = "Integer"
                   /\ \/ node.kind = "And" /\ loperand.value.int = 0
                      \/ node.kind = "Or" /\ loperand.value.int # 0
    IN  IF loperand.status # "ok" THEN loperand
        ELSE IF decided THEN IBool(loperand.I, node.kind = "Or")
        ELSE IF roperand.status # "ok" THEN roperand
        ELSE IF roperand.value.type # "Integer" THEN IStop("err", roperand.I)
        ELSE IBool(roperand.I, roperand.value.int # 0)

\* ASTInterpreter::interpret_binary_op: both operands are evaluated, the
\* left one first
interpret_binary_op(I, node) ==
    LET loperand == Operand(I, node.lhs)
        roperand == Operand(loperand.I, node.rhs)
        lop == loperand.value.int
        rop == roperand.value.int
        J == roperand.I
        kind == node.kind
    IN  IF loperand.status # "ok" THEN loperand
        ELSE IF roperand.status # "ok" THEN roperand
        ELSE IF loperand.value.type # "Integer" \/ roperand.value.type # "Integer"
        THEN IStop("err", J)
        ELSE CASE kind = "Multiply" -> IChecked(J, i32_mul(lop, rop))
               [] kind = "Divide" ->
                     IF DivPanics(lop, rop) THEN IStop("panic", J)
                     ELSE IOk(J, ValueInteger(i32_div(lop, rop)))
               [] kind = "Mod" ->
                     IF DivPanics(lop, rop) THEN IStop("panic", J)
                     ELSE IOk(J, ValueInteger(i32_rem(lop, rop)))
               [] kind = "Add" -> IChecked(J, i32_add(lop, rop))
               [] kind = "Subtract" -> IChecked(J, i32_sub(lop, rop))
               [] kind = "Less" -> IBool(J, lop < rop)
               [] kind = "LessEqual" -> IBool(J, lop <= rop)
               [] kind = "Greater" -> IBool(J, lop > rop)
               [] kind = "GreaterEqual" -> IBool(J, lop >= rop)
               [] kind = "Equal" -> IBool(J, lop = rop)
               [] kind = "NotEqual" -> IBool(J, lop # rop)
               [] kind = "And" -> IBool(J, lop # 0 /\ rop # 0)
               [] kind = "Or" -> IBool(J, lop # 0 \/ rop # 0)
               [] OTHER -> IStop("err", J)

\* ASTInterpreter::interpret_unary_op
interpret_unary_op(I, node) ==
    LET operand == Operand(I, node.lhs)
        val == operand.value.int
    IN  IF operand.status # "ok" THEN operand
        ELSE IF operand.value.type # "Integer" THEN IStop("err", operand.I)
        ELSE CASE node.kind = "Negate" -> IChecked(operand.I, i32_neg(val))
               [] node.kind = "Not" -> IBool(operand.I, val = 0)
               [] OTHER -> IStop("err", operand.I)

\* an interpret_if that runs its first statement whatever the condition is
interpret_if_always(I, node) ==
    LET condition == Operand(I, node.lhs)
        statement_node == node.rhs
        branch ==
            IF statement_node.lhs = Nil THEN IStop("panic", condition.I)
            ELSE interpret_body(condition.I, statement_node.lhs)
    IN  IF condition.status # "ok" THEN condition
        ELSE IF statement_node = Nil THEN IStop("panic", condition.I)
        ELSE IF branch.status # "ok" THEN branch
        ELSE IOk(branch.I, NoValue)

\* ASTInterpreter::interpret_if
interpret_if(I, node) ==
    LET condition == Operand(I, node.lhs)
        statement_node == node.rhs
        branch ==
            IF condition.value # ValueInteger(0)
            THEN (IF statement_node.lhs = Nil THEN IStop("panic", condition.I)
                  ELSE interpret_body(condition.I, statement_node.lhs))
            ELSE IF statement_node.rhs = Nil THEN IOk(condition.I, NoValue)
            ELSE interpret_body(condition.I, statement_node.rhs)
    IN  IF condition.status # "ok" THEN condition
        ELSE IF statement_node = Nil THEN IStop("panic", condition.I)
        ELSE IF branch.status # "ok" THEN branch
        ELSE IOk(branch.I, NoValue)

\* ASTInterpreter::interpret_while: a turn of the loop evaluates the
\* condition and, unless its value is Some(Integer(0)), the statement
interpret_while(I, node) ==
    LET condition == interpret_body(I, node.lhs)
        statement == interpret_body(condition.I, node.rhs)
    IN  IF node.lhs = Nil \/ node.rhs = Nil THEN IStop("panic", I)
        ELSE IF condition.status # "ok" THEN condition
        ELSE IF condition.value = ValueInteger(0) THEN IOk(condition.I, NoValue)
        ELSE IF condition.I.turns = 0 THEN IStop("fuel", condition.I)
        ELSE IF statement.status # "ok" THEN statement
        ELSE interpret_while([statement.I EXCEPT !.turns = @ - 1], node)

\* ASTInterpreter::interpret_prtc
interpret_prtc(I, node) ==
    LET value == Operand(I, node.lhs)
    IN  IF value.status # "ok" THEN value
        ELSE IF value.value.type # "Integer" THEN IStop("err", value.I)
        ELSE IF ~IsChar(value.value.int) THEN IStop("err", value.I)
        ELSE IWrite(value.I, Utf8(value.value.int))

\* ASTInterpreter::interpret_prti
interpret_prti(I, node) ==
    LET value == Operand(I, node.lhs)
    IN  IF value.status # "ok" THEN value
        ELSE IF value.value.type # "Integer" THEN IStop("err", value.I)
        ELSE IWrite(value.I, StrBytes(IntText(value.value.int)))

\* ASTInterpreter::interpret_prts
interpret_prts(I, node) ==
    LET value == Operand(I, node.lhs)
    IN  IF value.status # "ok" THEN value
        ELSE IF value.value.type # "String" THEN IStop("err", value.I)
        ELSE IWrite(value.I, StrBytes(value.value.str))

\* ASTInterpreter::interpret, with at most turns turns of its loops
interpret(node, checks, turns) ==
    interpret_body([global |-> <<>>, out |-> <<>>, checks |-> checks, turns |-> turns],
                   node)

----------------------------------------------------------------------------
(* The toolchain on a program: the lexical analyzer, the syntax analyzer,
   then the AST interpreter on the tree, and the code generator and the
   virtual machine on the listing *)

MaxSteps == 40
MaxTurns == 6

Expressions ==
    {<<"0">>,
     <<"1">>,
     <<"x">>,
     <<"y">>,
     <<"x", "<", "2">>,
     <<"x", "+", "1">>}

Conditions ==
    {<<"0">>,
     <<"1">>,
     <<"x">>,
     <<"x", "<", "2">>}

Assignments == {<<"x", "=">> \o e \o <<";">> : e \in Expressions} \cup {<<"y", "=", "1", ";">>}

Prints ==
    {<<"p", "r", "i", "n", "t", "(">> \o e \o <<")", ";">> : e \in Expressions}
        \cup {<<"p", "r", "i", "n", "t", "(", DQ, "a", DQ, ")", ";">>,
     <<"p", "r", "i", "n", "t", "(", DQ, TAB, DQ, ")", ";">>,
     <<"p", "r", "i", "n", "t", "(", DQ, "a", DQ, ",", "x", ")", ";">>}

Putcs ==
    {<<"p", "u", "t", "c", "(", "x", ")", ";">>,
     <<"p", "u", "t", "c", "(", "-", "1", ")", ";">>,
     <<"p", "u", "t", "c", "(", "9", "7", ")", ";">>}

SimpleStatements == Assignments \cup Prints \cup Putcs \cup {<<";">>}

Branches ==
    {<<"x", "=", "0", ";">>,
     <<"p", "r", "i", "n", "t", "(", "x", ")", ";">>,
     <<"y", "=", "1", ";">>,
     <<";">>}

IfStatements ==
    {<<"i", "f", "(">> \o c \o <<")">> \o st : c \in Conditions, st \in SimpleStatements}
        \cup {<<"i", "f", "(">> \o c \o <<")">> \o a \o <<SP, "e", "l", "s", "e", SP>> \o b :
                  c \in Conditions, a \in Branches, b \in Branches}

WhileStatements ==
    {<<"w", "h", "i", "l", "e", "(">> \o c \o <<")">> \o st : c \in Conditions, st \in SimpleStatements}
        \cup {<<"w", "h", "i", "l", "e", "(", "x", "<", "2", ")", "{", "p", "r", "i", "n", "t", "(", "x", ")", ";", "x", "=", "x", "+", "1", ";", "}">>}

Statements == SimpleStatements \cup IfStatements \cup WhileStatements

Prefixes ==
    {<<>>,
     <<"x", "=", "0", ";">>,
     <<"x", "=", "1", ";">>,
     <<"i", "f", "(", "0", ")", "x", "=", "1", ";">>,
     <<"x", "=", "2", "1", "4", "7", "4", "8", "3", "6", "4", "7", ";">>}

Suffixes ==
    {<<>>, <<"p", "r", "i", "n", "t", "(", "x", ")", ";">>}

\* the empty source text, and a statement between a prefix and a suffix
\* loops and ifs inside loops and ifs
NestedPrograms ==
    {<<"x", "=", "0", ";", "w", "h", "i", "l", "e", "(", "x", "<", "2", ")", "{", "y",
       "=", "0", ";", "w", "h", "i", "l", "e", "(", "y", "<", "2", ")", "y", "=", "y",
       "+", "1", ";", "x", "=", "x", "+", "1", ";", "}">>,
     <<"i", "f", "(", "1", ")", "i", "f", "(", "0", ")", "x", "=", "1", ";", "e", "l",
       "s", "e", SP, "x", "=", "2", ";">>,
     <<"i", "f", "(", "1", ")", "{", "i", "f", "(", "0", ")", "x", "=", "1", ";", "e",
       "l", "s", "e", SP, "x", "=", "2", ";", "}", "e", "l", "s", "e", SP, "x", "=",
       "3", ";">>,
     <<"x", "=", "0", ";", "w", "h", "i", "l", "e", "(", "x", "<", "2", ")", "{", "i",
       "f", "(", "x", ")", "p", "r", "i", "n", "t", "(", "x", ")", ";", "x", "=", "x",
       "+", "1", ";", "}">>,
     <<"i", "f", "(", "0", ")", "x", "=", "1", ";", "e", "l", "s", "e", SP, "i", "f",
       "(", "1", ")", "x", "=", "2", ";", "e", "l", "s", "e", SP, "x", "=", "3", ";">>,
     <<"i", "f", "(", "1", ")", "w", "h", "i", "l", "e", "(", "0", ")", "x", "=", "1",
       ";", "e", "l", "s", "e", SP, "x", "=", "2", ";">>,
     <<"w", "h", "i", "l", "e", "(", "!", "1", ")", "{", "i", "f", "(", "1", ")", "{",
       "}", "e", "l", "s", "e", ";", "}">>}

Programs ==
    {<<>>} \cup {a \o st \o z : a \in Prefixes, st \in Statements, z \in Suffixes}
        \cup NestedPrograms

PipeInit ==
    /\ program \in Programs
    /\ overflow_checks \in BOOLEAN
    /\ stage = "source"
    /\ NothingDone

\* create_tokens: the tokens up to End_of_input, unless the lexer fails
Tokenize ==
    /\ stage = "source"
    /\ scanned' = create_tokens(program)
    /\ stage' = "tokens"
    /\ UNCHANGED <<program, overflow_checks, parsed, interpreted, generated, vmvars>>

\* SyntaxAnalyzer::parse on the tokens
Parse ==
    /\ stage = "tokens"
    /\ scanned.ok
    /\ LET r == parse(scanned.tokens)
       IN  parsed' = [ok |-> r.ok, node |-> r.node, err |-> r.err]
    /\ stage' = "tree"
    /\ UNCHANGED <<program, overflow_checks, scanned, interpreted, generated, vmvars>>

\* ASTInterpreter::interpret on the tree, to its end or to MaxTurns turns
Interpret ==
    /\ stage = "tree"
    /\ parsed.ok
    /\ LET r == interpret(parsed.node, overflow_checks, MaxTurns)
       IN  interpreted' = [status |-> r.status, out |-> r.I.out]
    /\ stage' = "interpreted"
    /\ UNCHANGED <<program, overflow_checks, scanned, parsed, generated, vmvars>>

\* CodeGenerator::generate on the tree
Generate ==
    /\ stage = "interpreted"
    /\ LET r == generate(parsed.node)
       IN  generated' = [status |-> r.status, err |-> r.err,
                         instructions |-> r.G.instructions, code |-> r.code]
    /\ stage' = "listing"
    /\ UNCHANGED <<program, overflow_checks, scanned, parsed, interpreted, vmvars>>

\* VirtualMachineInterpreter::interpret up to the loop of execute: assemble
\* on the lines of the listing
Assemble ==
    /\ stage = "listing"
    /\ generated.status = "ok"
    /\ LET r == assemble(Lines(generated.code))
       IN  /\ pc' = r.vm.pc
           /\ sp' = r.vm.sp
           /\ byte_code' = r.vm.byte_code
           /\ string_pool' = r.vm.string_pool
           /\ data' = r.vm.data
           /\ stack' = r.vm.stack
           /\ vm_status' = IF r.status = "ok" THEN "running" ELSE r.status
    /\ stage' = "machine"
    /\ UNCHANGED <<program, overflow_checks, scanned, parsed, interpreted, generated,
                   out, steps, executed>>

\* the machine as a record
Machine ==
    [pc |-> pc, sp |-> sp, byte_code |-> byte_code, string_pool |-> string_pool,
     data |-> data, stack |-> stack]

\* one turn of the loop of execute
Execute ==
    /\ stage = "machine"
    /\ vm_status = "running"
    /\ steps < MaxSteps
    /\ LET r == execute_step(Machine, overflow_checks)
       IN  /\ pc' = r.vm.pc
           /\ sp' = r.vm.sp
           /\ data' = r.vm.data
           /\ stack' = r.vm.stack
           /\ vm_status' = r.status
           /\ out' = out \o r.written
    /\ steps' = steps + 1
    /\ executed' = [address |-> pc,
                    opcode |-> IF pc >= 0 /\ pc < Len(byte_code) THEN byte_code[pc + 1]
                               ELSE -1,
                    condition |-> IF sp >= 1 THEN stack[sp] ELSE 0]
    /\ UNCHANGED <<program, overflow_checks, stage, scanned, parsed, interpreted,
                   generated, byte_code, string_pool>>

PipeNext ==
    (Tokenize \/ Parse \/ Interpret \/ Generate \/ Assemble \/ Execute)
        /\ UNCHANGED <<lexvars, tokvars, astvars>>

InitPipe == PipeInit /\ LexIdle /\ TokIdle /\ AstIdle

SpecPipe == InitPipe /\ [][PipeNext]_vars

----------------------------------------------------------------------------
(* Properties of the toolchain *)

\* the runs of the two back ends have both come to their end
BothEnded ==
    /\ stage = "machine"
    /\ vm_status \in {"halted", "err", "panic"}
    /\ interpreted.status \in {"ok", "err", "panic"}

\* C1: for every program the lexer and the parser accept, the AST
\* interpreter on the tree and the virtual machine on the generated listing
\* write the same bytes
C1_SameOutput == BothEnded => out = interpreted.out

\* the immediate of the instruction whose opcode is at address a
Immediate(a) == from_ne_bytes(SubSeq(byte_code, a + 2, a + 5))

\* the last turn of the loop ran a jump that was taken
JumpTaken ==
    /\ vm_status = "running"
    /\ \/ executed.opcode = JMP
       \/ executed.opcode = JZ /\ executed.condition = 0

\* the last turn of the loop ran a jz that was not taken
JumpNotTaken ==
    /\ vm_status = "running"
    /\ executed.opcode = JZ
    /\ executed.condition # 0

\* C2 as stated: after a jmp at address a, and after a jz at a that popped 0,
\* the next opcode is fetched at (a + 5) + imm; after a jz that popped a
\* non-zero value, at a + 5
C2_JumpFromAfterImmediate ==
    /\ JumpTaken => pc = (executed.address + 5) + Immediate(executed.address)
    /\ JumpNotTaken => pc = executed.address + 5

\* C2, amended: after a jmp at address a, and after a jz at a that popped 0,
\* the next opcode is fetched at (a + 1) + imm, the offset being measured
\* from the byte after the opcode; after a jz that popped a non-zero value,
\* at a + 5
C2_JumpFromAfterOpcode ==
    /\ JumpTaken => pc = (executed.address + 1) + Immediate(executed.address)
    /\ JumpNotTaken => pc = executed.address + 5

\* a jmp backwards has just been run, at the end of a loop body
C2_Witness ==
    /\ JumpTaken
    /\ executed.opcode = JMP
    /\ Immediate(executed.address) < 0
    /\ steps > 5

IsJump(i) == i.kind \in {"Jz", "Jump"}

\* the address of the Halt, the last instruction of the listing
HaltAddress == generated.instructions[Len(generated.instructions)].address

\* C3 as stated: in every generated listing, (a + 5) + rel lies between 0
\* and the address of the final halt, for each jz and jmp at address a with
\* immediate rel
C3_TargetFromAfterImmediate ==
    generated.status = "ok" =>
        \A n \in 1 .. Len(generated.instructions) :
            LET i == generated.instructions[n]
            IN  IsJump(i) =>
                    /\ 0 <= (i.address + 5) + i.value
                    /\ (i.address + 5) + i.value <= HaltAddress

\* C3, amended: in every generated listing, (a + 1) + rel lies between 0
\* and the address of the final halt, for each jz and jmp at address a with
\* immediate rel
C3_TargetFromAfterOpcode ==
    generated.status = "ok" =>
        \A n \in 1 .. Len(generated.instructions) :
            LET i == generated.instructions[n]
            IN  IsJump(i) =>
                    /\ 0 <= (i.address + 1) + i.value
                    /\ (i.address + 1) + i.value <= HaltAddress

\* a listing with a jz forwards and a jmp backwards
C3_Witness ==
    /\ generated.status = "ok"
    /\ \E n \in 1 .. Len(generated.instructions) :
           generated.instructions[n].kind = "Jz" /\ generated.instructions[n].value > 0
    /\ \E n \in 1 .. Len(generated.instructions) :
           generated.instructions[n].kind = "Jump" /\ generated.instructions[n].value < 0

\* the second field of each instruction line of a listing: the mnemonics
ListedMnemonics(text) ==
    LET ls == Lines(text)
        first == 2 + read_header(ls[1]).string_size
    IN  [n \in 1 .. (Len(ls) + 1) - first |-> SplitWhitespace(ls[n + first - 1])[2]]

\* C4: a successful generate emits exactly one halt, as the last instruction
\* of the listing: none before it and nothing after it
C4_SingleFinalHalt ==
    (stage = "listing" /\ generated.status = "ok") =>
        LET listed == ListedMnemonics(generated.code)
            last == Len(generated.instructions)
        IN  /\ last >= 1
            /\ Len(listed) = last
            /\ \A n \in 1 .. last :
                   /\ generated.instructions[n].kind = "Halt" <=> n = last
                   /\ listed[n] = Mnemonic("Halt") <=> n = last

\* a listing of a program with a loop and a print after the loop
C4_Witness ==
    /\ generated.status = "ok"
    /\ Len(generated.instructions) >= 12
    /\ \E n \in 1 .. Len(generated.instructions) :
           generated.instructions[n].kind = "Jump"

\* the listing of a program without statements
EmptyListing ==
    <<"D", "a", "t", "a", "s", "i", "z", "e", ":", SP, "0", SP, "S", "t", "r", "i", "n", "g", "s", ":", SP, "0">>
        \o <<NL>> \o <<"0", SP, "h", "a", "l", "t">>

\* C16: for an empty source text every stage succeeds: the lexer yields only
\* End_of_input, the parser returns Sequence(None, None), the code
\* generator emits the header `Datasize: 0 Strings: 0` and the single
\* instruction `0 halt`, and the VM runs that listing to halt with empty
\* output and no error.
C16_EmptySource ==
    program = <<>> =>
        /\ stage # "source" =>
                /\ scanned.ok
                /\ scanned.tokens = <<Token("EndOfInput", <<>>, 0, 1, 1)>>
        /\ stage \notin {"source", "tokens"} =>
                parsed.ok /\ parsed.node = Node("Sequence", Nil, Nil)
        /\ stage \in {"listing", "machine"} =>
                /\ generated.status = "ok"
                /\ generated.instructions = <<Instruction("Halt", 0, 0)>>
                /\ generated.code = EmptyListing
        /\ stage = "machine" =>
                /\ vm_status = IF steps = 0 THEN "running" ELSE "halted"
                /\ steps <= 1
                /\ out = <<>>

\* the machine has halted on the listing of the empty source text
C16_Witness ==
    /\ program = <<>>
    /\ stage = "machine"
    /\ vm_status = "halted"
    /\ executed.opcode = HALT
    /\ out = <<>>

----------------------------------------------------------------------------
(* parse_expr on the tokens of an expression, as tests::test_expr calls it *)

\* operands: the text and the tree parse_primary returns for it
ExprOperands ==
    {[text |-> <<"x">>, node |-> IdentifierNode(<<"x">>)],
     [text |-> <<"7">>, node |-> IntegerNode(7)],
     [text |-> <<"-", "y">>, node |-> Node("Negate", IdentifierNode(<<"y">>), Nil)],
     [text |-> <<"(", "a", "+", "1", ")">>,
      node |-> Node("Add", IdentifierNode(<<"a">>), IntegerNode(1))]}

\* the binary operators: the text, the node kind, and the level in the
\* order || < && < (== !=) < (< <= > >=) < (+ -) < (* / %)
ExprOperators ==
    {[text |-> <<"|", "|">>, kind |-> "Or", level |-> 1],
     [text |-> <<"&", "&">>, kind |-> "And", level |-> 2],
     [text |-> <<"=", "=">>, kind |-> "Equal", level |-> 3],
     [text |-> <<"!", "=">>, kind |-> "NotEqual", level |-> 3],
     [text |-> <<"<">>, kind |-> "Less", level |-> 4],
     [text |-> <<"<", "=">>, kind |-> "LessEqual", level |-> 4],
     [text |-> <<">">>, kind |-> "Greater", level |-> 4],
     [text |-> <<">", "=">>, kind |-> "GreaterEqual", level |-> 4],
     [text |-> <<"+">>, kind |-> "Add", level |-> 5],
     [text |-> <<"-">>, kind |-> "Subtract", level |-> 5],
     [text |-> <<"*">>, kind |-> "Multiply", level |-> 6],
     [text |-> <<"/">>, kind |-> "Divide", level |-> 6],
     [text |-> <<"%">>, kind |-> "Mod", level |-> 6]}

\* the expression `a p b q c`
ExprText(a, p, b, q, c) ==
    a.text \o <<SP>> \o p.text \o <<SP>> \o b.text \o <<SP>> \o q.text \o <<SP>> \o c.text

ExprCases == ExprOperands \X ExprOperators \X ExprOperands \X ExprOperators \X ExprOperands

ExprInit ==
    /\ \E e \in ExprCases : program = ExprText(e[1], e[2], e[3], e[4], e[5])
    /\ overflow_checks = FALSE
    /\ stage = "source"
    /\ NothingDone

\* tests::create_parser
create_parser(tokens) == [next_token |-> Head(tokens), token_iter |-> Tail(tokens)]

\* create_parser(tokens).parse_expr()
ParseExpr ==
    /\ stage = "tokens"
    /\ scanned.ok
    /\ LET r == parse_expr(create_parser(scanned.tokens))
       IN  parsed' = [ok |-> r.ok, node |-> r.node, err |-> r.err]
    /\ stage' = "tree"
    /\ UNCHANGED <<program, overflow_checks, scanned, interpreted, generated, vmvars>>

ExprNext == (Tokenize \/ ParseExpr) /\ UNCHANGED <<lexvars, tokvars, astvars>>

InitExpr == ExprInit /\ LexIdle /\ TokIdle /\ AstIdle

SpecExpr == InitExpr /\ [][ExprNext]_vars

\* C12: parse_expr builds the tree in which an operator of higher precedence
\* binds tighter and operators of equal precedence associate to the left,
\* with the order || < && < (== !=) < (< <= > >=) < (+ -) < (* / %):
\* `a p b q c` parses as p(a, q(b, c)) when q has higher precedence than p
\* and as q(p(a, b), c) otherwise.
C12_PrecedenceAndAssociativity ==
    stage = "tree" =>
        LET field == SplitWhitespace(program)
            a == CHOOSE o \in ExprOperands : o.text = field[1]
            p == CHOOSE o \in ExprOperators : o.text = field[2]
            b == CHOOSE o \in ExprOperands : o.text = field[3]
            q == CHOOSE o \in ExprOperators : o.text = field[4]
            c == CHOOSE o \in ExprOperands : o.text = field[5]
        IN  /\ program = ExprText(a, p, b, q, c)
            /\ parsed.ok
            /\ parsed.node =
                  IF q.level > p.level
                  THEN Node(p.kind, a.node, Node(q.kind, b.node, c.node))
                  ELSE Node(q.kind, Node(p.kind, a.node, b.node), c.node)

\* `x - 7 - -y` was parsed to the left, `x + 7 * -y` to the right
C12_Witness ==
    /\ stage = "tree"
    /\ parsed.ok
    /\ \/ /\ program = <<"x", SP, "-", SP, "7", SP, "-", SP, "-", "y">>
          /\ parsed.node.kind = "Subtract"
          /\ parsed.node.lhs.kind = "Subtract"
       \/ /\ program = <<"x", SP, "+", SP, "7", SP, "*", SP, "-", "y">>
          /\ parsed.node.kind = "Add"
          /\ parsed.node.rhs.kind = "Multiply"

----------------------------------------------------------------------------
(* parse on the tokens of a statement list, as tests::test_stmt_list calls
   parse_stmt_list *)

MaxStatements == 3

\* statements: the text and the tree parse_stmt returns for it
StmtCases ==
    {[text |-> <<";">>, node |-> Node("Sequence", Nil, Nil)],
     [text |-> <<"x", "=", "1", ";">>,
      node |-> Node("Assign", IdentifierNode(<<"x">>), IntegerNode(1))],
     [text |-> <<"p", "u", "t", "c", "(", "x", ")", ";">>,
      node |-> Node("Prtc", IdentifierNode(<<"x">>), Nil)],
     [text |-> <<"{", "}">>, node |-> Node("Sequence", Nil, Nil)],
     [text |-> <<"{", ";", "x", "=", "1", ";", "}">>,
      node |-> Node("Sequence",
                    Node("Sequence", Nil, Node("Sequence", Nil, Nil)),
                    Node("Assign", IdentifierNode(<<"x">>), IntegerNode(1)))]}

\* the statements, one on each line
RECURSIVE StmtListText(_)
StmtListText(sts) ==
    IF sts = <<>> THEN <<>> ELSE Head(sts).text \o <<NL>> \o StmtListText(Tail(sts))

StmtLists == UNION {[1..n -> StmtCases] : n \in 0..MaxStatements}

StmtsInit ==
    /\ \E sts \in StmtLists : program = StmtListText(sts)
    /\ overflow_checks = FALSE
    /\ stage = "source"
    /\ NothingDone

StmtsNext == (Tokenize \/ Parse) /\ UNCHANGED <<lexvars, tokvars, astvars>>

InitStmts == StmtsInit /\ LexIdle /\ TokIdle /\ AstIdle

SpecStmts == InitStmts /\ [][StmtsNext]_vars

\* the left-deep chain of the first n of the trees
RECURSIVE LeftDeep(_, _)
LeftDeep(nodes, n) ==
    IF n = 0 THEN Nil ELSE Node("Sequence", LeftDeep(nodes, n - 1), nodes[n])

\* the trees of the statements of the program, line by line
StmtNodes ==
    LET ls == Lines(program)
    IN  [i \in 1..Len(ls) |-> (CHOOSE c \in StmtCases : c.text = ls[i]).node]

\* C13: for a statement list of n >= 1 statements s1..sn, parse_stmt_list
\* returns the left-deep chain Sequence(...Sequence(Sequence(None, s1), s2)
\* ..., sn); for n = 0 it returns Sequence(None, None); an empty statement
\* `;` is itself the node Sequence(None, None).
C13_LeftDeepSequence ==
    stage = "tree" =>
        /\ parsed.ok
        /\ parsed.node =
              IF Len(StmtNodes) = 0 THEN Node("Sequence", Nil, Nil)
              ELSE LeftDeep(StmtNodes, Len(StmtNodes))

\* three statements, the second of them the empty statement
C13_Witness ==
    /\ stage = "tree"
    /\ parsed.ok
    /\ Len(Lines(program)) = 3
    /\ Lines(program)[2] = <<";">>
    /\ parsed.node.lhs.rhs = Node("Sequence", Nil, Nil)
    /\ parsed.node.lhs.lhs.lhs = Nil
    /\ parsed.node.rhs.kind = "Prtc"

----------------------------------------------------------------------------
(* parse_if_stmt on the tokens of an if statement, as tests::test_if_stmt
   calls it *)

MaxIfChain == 2

\* conditions in parentheses and clauses: the text and the tree
IfConditions ==
    {[text |-> <<"(", "x", ")">>, node |-> IdentifierNode(<<"x">>)],
     [text |-> <<"(", "x", "<", "2", ")">>,
      node |-> Node("Less", IdentifierNode(<<"x">>), IntegerNode(2))]}

IfClauses ==
    {[text |-> <<";">>, node |-> Node("Sequence", Nil, Nil)],
     [text |-> <<"x", "=", "1", ";">>,
      node |-> Node("Assign", IdentifierNode(<<"x">>), IntegerNode(1))],
     [text |-> <<"{", "y", "=", "1", ";", "}">>,
      node |-> Node("Sequence", Nil,
                    Node("Assign", IdentifierNode(<<"y">>), IntegerNode(1)))]}

\* the statement without an else part
NoElse == [text |-> <<>>, node |-> Nil]

\* `if cond then` and `if cond then else else`, with the tree claimed for it
IfCase(cond, then, else) ==
    [text |-> <<"i", "f">> \o cond.text \o <<SP>> \o then.text
                  \o (IF else = NoElse THEN <<>>
                      ELSE <<SP, "e", "l", "s", "e", SP>> \o else.text),
     node |-> Node("If", cond.node, Node("If", then.node, else.node))]

\* the if statements whose else parts form a chain of at most n ifs
RECURSIVE IfCases(_)
IfCases(n) ==
    IF n = 0 THEN {}
    ELSE {IfCase(c, t, e) : c \in IfConditions, t \in IfClauses,
                            e \in IfClauses \cup {NoElse} \cup IfCases(n - 1)}

IfInit ==
    /\ \E c \in IfCases(MaxIfChain) : program = c.text
    /\ overflow_checks = FALSE
    /\ stage = "source"
    /\ NothingDone

\* create_parser(tokens).parse_if_stmt()
ParseIf ==
    /\ stage = "tokens"
    /\ scanned.ok
    /\ LET r == parse_rule("parse_if_stmt", Nil, 0, create_parser(scanned.tokens))
       IN  parsed' = [ok |-> r.ok, node |-> r.node, err |-> r.err]
    /\ stage' = "tree"
    /\ UNCHANGED <<program, overflow_checks, scanned, interpreted, generated, vmvars>>

IfNext == (Tokenize \/ ParseIf) /\ UNCHANGED <<lexvars, tokvars, astvars>>

InitIf == IfInit /\ LexIdle /\ TokIdle /\ AstIdle

SpecIf == InitIf /\ [][IfNext]_vars

\* C14: parse_if_stmt returns If(cond, If(then, else)) for
\* `if (cond) then else else`, and If(cond, If(then, None)) when the else
\* part is omitted; an `else if` chain nests the next If node as the rhs of
\* the inner If.
C14_IfShape ==
    stage = "tree" =>
        \A c \in IfCases(MaxIfChain) :
            program = c.text => parsed.ok /\ parsed.node = c.node

\* an if with an else-if: the rhs of the inner If is an If with a condition
C14_Witness ==
    /\ stage = "tree"
    /\ parsed.ok
    /\ parsed.node.kind = "If"
    /\ parsed.node.lhs.kind = "Less"
    /\ parsed.node.rhs.kind = "If"
    /\ parsed.node.rhs.lhs.kind = "Assign"
    /\ parsed.node.rhs.rhs.kind = "If"
    /\ parsed.node.rhs.rhs.lhs.kind = "Identifier"
    /\ parsed.node.rhs.rhs.rhs.kind = "If"
    /\ parsed.node.rhs.rhs.rhs.rhs = Nil

----------------------------------------------------------------------------
(* parse on the tokens of a program in which a required token is missing *)

\* a token of a statement: one the grammar demands at its place (';' after
\* a statement, ')' after an expression, '}' after a block, '=' after the
\* target of an assignment), or any other
Required(text) == [text |-> text, required |-> TRUE]
Given(text) == [text |-> text, required |-> FALSE]

MissingTemplates ==
  {<<Given(<<"x">>), Required(<<"=">>), Given(<<"1">>), Required(<<";">>)>>,
   <<Given(<<"x">>), Required(<<"=">>), Given(<<"(">>), Given(<<"y">>),
      Given(<<"+">>), Given(<<"1">>), Required(<<")">>), Given(<<"*">>),
      Given(<<"2">>), Required(<<";">>)>>,
   <<Given(<<"p", "u", "t", "c">>), Given(<<"(">>), Given(<<"x">>), Required(<<")">>),
      Required(<<";">>)>>,
   <<Given(<<"p", "r", "i", "n", "t">>), Given(<<"(">>), Given(<<DQ, "a", DQ>>), Given(<<",">>),
      Given(<<"x">>), Required(<<")">>), Required(<<";">>)>>,
   <<Given(<<"{">>), Given(<<"x">>), Required(<<"=">>), Given(<<"1">>),
      Required(<<";">>), Required(<<"}">>)>>,
   <<Given(<<"{">>), Given(<<"{">>), Given(<<";">>), Required(<<"}">>),
      Required(<<"}">>)>>,
   <<Given(<<"i", "f">>), Given(<<"(">>), Given(<<"x">>), Required(<<")">>),
      Given(<<"y">>), Required(<<"=">>), Given(<<"1">>), Required(<<";">>),
      Given(<<"e", "l", "s", "e">>), Given(<<"{">>), Given(<<";">>), Required(<<"}">>)>>,
   <<Given(<<"w", "h", "i", "l", "e">>), Given(<<"(">>), Given(<<"x">>), Given(<<"<">>),
      Given(<<"2">>), Required(<<")">>), Given(<<"{">>), Given(<<"x">>),
      Required(<<"=">>), Given(<<"x">>), Given(<<"+">>), Given(<<"1">>),
      Required(<<";">>), Required(<<"}">>)>>,
   <<Given(<<"i", "f">>), Given(<<"(">>), Given(<<"x">>), Required(<<")">>),
      Given(<<";">>)>>,
   <<Given(<<"w", "h", "i", "l", "e">>), Given(<<"(">>), Given(<<"(">>), Given(<<"x">>),
      Required(<<")">>), Required(<<")">>), Given(<<"p", "u", "t", "c">>), Given(<<"(">>),
      Given(<<"x">>), Required(<<")">>), Required(<<";">>)>>}

\* the tokens but the one at index skip, separated by spaces
RECURSIVE JoinBut(_, _, _)
JoinBut(pieces, skip, i) ==
    IF i > Len(pieces) THEN <<>>
    ELSE (IF i = skip THEN <<>> ELSE pieces[i].text \o <<SP>>) \o JoinBut(pieces, skip, i + 1)

\* what may follow the statement: nothing, or another statement
MissingTrailers == {<<>>, <<"y", "=", "2", ";">>}

ExpectedMessage(text) ==
    CASE text = <<";">> -> "';' is expected."
      [] text = <<")">> -> "')' is expected."
      [] text = <<"}">> -> "'}' is expected."
      [] text = <<"=">> -> "'=' is expected."

\* the programs with one required token left out, and the message claimed
MissingCases ==
    UNION {{[text |-> JoinBut(t, i, 1) \o z, err |-> ExpectedMessage(t[i].text)] :
                i \in {j \in DOMAIN t : t[j].required}, z \in MissingTrailers} :
           t \in MissingTemplates}

MissingInit ==
    /\ \E c \in MissingCases : program = c.text
    /\ overflow_checks = FALSE
    /\ stage = "source"
    /\ NothingDone

MissingNext == (Tokenize \/ Parse) /\ UNCHANGED <<lexvars, tokvars, astvars>>

InitMissing == MissingInit /\ LexIdle /\ TokIdle /\ AstIdle

SpecMissing == InitMissing /\ [][MissingNext]_vars

\* C15: when a required `;`, `)`, `}` or `=` is missing at the point where
\* the grammar demands it (including when the next token is End_of_input),
\* SyntaxAnalyzer::parse returns a syntax error whose message names that
\* expected token, and no tree is returned.
C15_MissingToken ==
    stage = "tree" =>
        \A c \in MissingCases :
            program = c.text =>
                /\ ~parsed.ok
                /\ parsed.node = Nil
                /\ parsed.err = c.err

\* `x = 1` and then End_of_input: the ';' is reported as expected
C15_Witness ==
    /\ stage = "tree"
    /\ program = <<"x", SP, "=", SP, "1", SP>>
    /\ scanned.tokens[Len(scanned.tokens)].kind = "EndOfInput"
    /\ Len(scanned.tokens) = 4
    /\ ~parsed.ok
    /\ parsed.err = "';' is expected."

----------------------------------------------------------------------------
(* The code generator on a tree: CodeGenerator::generate on the value of
   ASTReader::read_ast, as main of src/code_generator and the tests call it.
   read_ast builds every interior node with two optional children, whatever
   the kind, so the trees below are all trees the generator can be given. *)

MaxGenStatements == 3

GenX == IdentifierNode(<<"x">>)

GenY == IdentifierNode(<<"y">>)

\* statements of well-formed programs, as the parser builds them
GenStatements ==
    { Node("Prts", StringNode(<<"a">>), Nil),
      Node("Prts", StringNode(<<"b">>), Nil),
      Node("Prts", StringNode(<<"a", NL>>), Nil),
      Node("Assign", GenX, IntegerNode(1)),
      Node("Assign", GenY, IntegerNode(2)),
      Node("Assign", GenY, GenX),
      Node("Assign", IdentifierNode(<<"w">>), Node("Add", GenX, GenY)),
      Node("Prti", GenX, Nil),
      Node("While", Node("Less", GenY, IntegerNode(3)),
           Node("Assign", GenY, Node("Add", GenY, IntegerNode(1)))),
      Node("If", IntegerNode(1),
           Node("If", Node("Prts", StringNode(<<"b">>), Nil),
                Node("Prts", StringNode(<<"a">>), Nil))) }

\* the left-deep Sequence spine of parse_stmt_list over n statements
RECURSIVE GenSequences(_)
GenSequences(n) ==
    IF n = 0 THEN {Nil}
    ELSE {Node("Sequence", s, st) : s \in GenSequences(n - 1), st \in GenStatements}

GenPrograms == UNION {GenSequences(n) : n \in 1 .. MaxGenStatements}

\* nodes the generator has no code for
MalformedNodes ==
    { Node("Prts", IntegerNode(1), Nil),
      Node("Prts", GenX, Nil),
      Node("Prts", Nil, Nil),
      Node("Assign", IntegerNode(1), IntegerNode(2)),
      Node("Assign", StringNode(<<"a">>), IntegerNode(2)),
      Node("Assign", Nil, IntegerNode(2)),
      Node("Assign", IntegerNode(1), GenY),
      Node("Assign", GenX, GenX),
      Node("Prti", GenY, Nil) }

GenGood == Node("Prts", StringNode(<<"a">>), Nil)

\* the places of a tree a node can stand at
MalformedTrees ==
    UNION { { b,
              Node("Sequence", Nil, b),
              Node("Sequence", Node("Sequence", Nil, GenGood), b),
              Node("Sequence", Node("Sequence", Nil, b), GenGood),
              Node("If", IntegerNode(1), Node("If", b, Nil)),
              Node("If", IntegerNode(1), Node("If", GenGood, b)),
              Node("While", IntegerNode(1), b),
              Node("Prti", IntegerNode(1), b),
              Node("Negate", IntegerNode(1), b),
              Node("Sequence", Node("Sequence", Nil, Node("If", Nil, Nil)), b) }
            : b \in MalformedNodes }

GenTrees == GenPrograms \cup MalformedTrees

GenInit ==
    /\ tree \in GenTrees
    /\ tree_text = <<>>
    /\ tree_read = [status |-> "none", node |-> Nil]
    /\ program = <<>>
    /\ overflow_checks = FALSE
    /\ stage = "tree"
    /\ NothingDone

\* CodeGenerator::generate(&ast)
GenerateTree ==
    /\ stage = "tree"
    /\ LET r == generate(tree)
       IN  generated' = [status |-> r.status, err |-> r.err,
                         instructions |-> r.G.instructions, code |-> r.code]
    /\ stage' = "listing"
    /\ UNCHANGED <<program, overflow_checks, scanned, parsed, interpreted, vmvars>>

GenNext == GenerateTree /\ UNCHANGED <<lexvars, tokvars, astvars>>

InitGen == GenInit /\ LexIdle /\ TokIdle

SpecGen == InitGen /\ [][GenNext]_vars

\* every node of a tree
RECURSIVE Subnodes(_)
Subnodes(n) ==
    IF n = Nil THEN {}
    ELSE {n} \cup Subnodes(n.lhs) \cup Subnodes(n.rhs)

\* the names some Assign of the tree stores to
AssignedNames(t) ==
    {n.lhs.text : n \in {a \in Subnodes(t) : a.kind = "Assign" /\ a.lhs # Nil
                                               /\ a.lhs.kind = "Identifier"}}

\* a Prts over a child that is no String, an Assign over a left child that
\* is no Identifier, or an Identifier outside the left of an Assign that no
\* Assign of the tree stores to
MalformedAt(t, n) ==
    \/ n.kind = "Prts" /\ n.lhs # Nil /\ n.lhs.kind # "String"
    \/ n.kind = "Assign" /\ n.lhs # Nil /\ n.lhs.kind # "Identifier"
    \/ /\ n.kind # "Assign"
       /\ n.lhs # Nil
       /\ n.lhs.kind = "Identifier"
       /\ n.lhs.text \notin AssignedNames(t)
    \/ /\ n.rhs # Nil
       /\ n.rhs.kind = "Identifier"
       /\ n.rhs.text \notin AssignedNames(t)

ContainsMalformed(t) == \E n \in Subnodes(t) : MalformedAt(t, n)

\* C17: generate returns a CodeGenerationError, and no listing, for every
\* tree that contains a Prts whose child is not a String, an Assign whose
\* lhs is not an Identifier, or a read of an Identifier without an address
C17_MalformedIsError ==
    (stage = "listing" /\ ContainsMalformed(tree))
        => (generated.status = "err" /\ generated.code = <<>>)

----------------------------------------------------------------------------
(* The string pool of a listing *)

\* the string literals a tree prints, in the order of the statements
RECURSIVE PrintedLiterals(_)
PrintedLiterals(n) ==
    IF n = Nil THEN <<>>
    ELSE CASE n.kind = "Prts" ->
                IF n.lhs # Nil /\ n.lhs.kind = "String" THEN <<n.lhs.text>> ELSE <<>>
           [] n.kind = "Sequence" -> PrintedLiterals(n.lhs) \o PrintedLiterals(n.rhs)
           [] n.kind = "While" -> PrintedLiterals(n.rhs)
           [] n.kind = "If" ->
                IF n.rhs = Nil THEN <<>>
                ELSE PrintedLiterals(n.rhs.lhs) \o PrintedLiterals(n.rhs.rhs)
           [] OTHER -> <<>>

\* a sequence without the repetitions of its earlier elements
RECURSIVE FirstUses(_)
FirstUses(s) ==
    IF s = <<>> THEN <<>>
    ELSE LET before == FirstUses(SubSeq(s, 1, Len(s) - 1))
         IN  IF \E i \in 1 .. Len(before) : before[i] = s[Len(s)]
             THEN before
             ELSE Append(before, s[Len(s)])

\* the place of the first x in s, counted from 0
FirstIndex(s, x) == (CHOOSE i \in 1 .. Len(s) : s[i] = x) - 1

\* the operands of the push instructions that stand before a prts
PrtsOperands(instructions) ==
    LET at == {k \in 1 .. Len(instructions) - 1 : instructions[k + 1].kind = "Prts"}
        RECURSIVE Collect(_)
        Collect(k) ==
            IF k > Len(instructions) THEN <<>>
            ELSE IF k \in at THEN <<instructions[k]>> \o Collect(k + 1)
            ELSE Collect(k + 1)
    IN  Collect(1)

\* the first line of a listing, without its newline
HeaderLine(code) ==
    SubSeq(code, 1, (CHOOSE i \in 1 .. Len(code) :
                        code[i] = NL /\ \A j \in 1 .. i - 1 : code[j] # NL) - 1)

\* the count after "Strings:" in the header line
HeaderStrings(code) == SplitWhitespace(HeaderLine(code))[4]

\* the text of a string pool: one line per string, each "{:?}"
RECURSIVE PoolText(_)
PoolText(pool) ==
    IF pool = <<>> THEN <<>>
    ELSE DebugStr(Head(pool)) \o <<NL>> \o PoolText(Tail(pool))

\* the text between the header line and the instructions is text
AfterHeader(code, text) ==
    LET h == Len(HeaderLine(code)) + 1
    IN  /\ SubSeq(code, h + 1, h + Len(text)) = text
        /\ SubSeq(code, h + Len(text) + 1, h + Len(text) + 2) = <<"0", SP>>

\* C18: the pool of a listing holds every printed literal exactly once
\* (no two equal strings), in the order of first use; the Strings: count is the number of distinct
\* literals; each prts is fed by a push of the index its literal got at its
\* first use, which is below that count
C18_StringPool ==
    (stage = "listing" /\ generated.status = "ok")
        => LET literals == PrintedLiterals(tree)
               pool == FirstUses(literals)
               pushes == PrtsOperands(generated.instructions)
           IN  /\ HeaderStrings(generated.code) = NatText(Len(pool))
               /\ AfterHeader(generated.code, PoolText(pool))
               /\ Len(pushes) = Len(literals)
               /\ \A k \in 1 .. Len(pushes) :
                      /\ pushes[k].kind = "Push"
                      /\ pushes[k].value = FirstIndex(pool, literals[k])
                      /\ pushes[k].value >= 0
                      /\ pushes[k].value < Len(pool)

\* a listing of a tree that prints "a", then "b", then "a" again: the third
\* prts is fed by push 0
C18_Witness ==
    /\ stage = "listing"
    /\ generated.status = "ok"
    /\ PrintedLiterals(tree) = << <<"a">>, <<"b">>, <<"a">> >>
    /\ HeaderStrings(generated.code) = <<"2">>
    /\ PrtsOperands(generated.instructions)[3].value = 0
    /\ PrtsOperands(generated.instructions)[2].value = 1

----------------------------------------------------------------------------
(* The addresses of the identifiers of a listing *)

Use(name, kind) == [name |-> name, kind |-> kind]

\* the identifiers a tree reads and writes, in the order the statements
\* run: an assignment reads its right side before it stores
RECURSIVE IdentifierUses(_)
IdentifierUses(n) ==
    IF n = Nil THEN <<>>
    ELSE CASE n.kind = "Identifier" -> <<Use(n.text, "Fetch")>>
           [] n.kind = "Assign" ->
                IdentifierUses(n.rhs)
                    \o (IF n.lhs # Nil /\ n.lhs.kind = "Identifier"
                        THEN <<Use(n.lhs.text, "Store")>> ELSE <<>>)
           [] n.kind \in {"Prti", "Prtc"} \cup UnaryKinds -> IdentifierUses(n.lhs)
           [] n.kind \in {"Sequence", "While"} \cup BinaryKinds ->
                IdentifierUses(n.lhs) \o IdentifierUses(n.rhs)
           [] n.kind = "If" ->
                IF n.rhs = Nil THEN IdentifierUses(n.lhs)
                ELSE IdentifierUses(n.lhs) \o IdentifierUses(n.rhs.lhs)
                         \o IdentifierUses(n.rhs.rhs)
           [] OTHER -> <<>>

\* the identifiers of a tree in the order of its text: the left side of an
\* assignment comes before its right side
RECURSIVE Identifiers(_)
Identifiers(n) ==
    IF n = Nil THEN <<>>
    ELSE CASE n.kind = "Identifier" -> <<n.text>>
           [] n.kind \in {"Prti", "Prtc"} \cup UnaryKinds -> Identifiers(n.lhs)
           [] n.kind \in {"Sequence", "While", "Assign"} \cup BinaryKinds ->
                Identifiers(n.lhs) \o Identifiers(n.rhs)
           [] n.kind = "If" ->
                IF n.rhs = Nil THEN Identifiers(n.lhs)
                ELSE Identifiers(n.lhs) \o Identifiers(n.rhs.lhs) \o Identifiers(n.rhs.rhs)
           [] OTHER -> <<>>

IsFetchOrStore(i) == i.kind \in {"Fetch", "Store"}

\* the count after "Datasize:" in the header line
HeaderDatasize(code) == SplitWhitespace(HeaderLine(code))[2]

\* C19: the identifiers get the addresses 0, 1, 2, ... in the order of their
\* first occurrence, every fetch and store of an identifier carries that
\* one address, distinct identifiers have distinct addresses, Datasize is
\* the number of identifiers and every fetch/store operand is below it
C19_IdentifierAddresses ==
    (stage = "listing" /\ generated.status = "ok")
        => LET names == FirstUses(Identifiers(tree))
               uses == IdentifierUses(tree)
               accesses == SelectSeq(generated.instructions, IsFetchOrStore)
           IN  /\ HeaderDatasize(generated.code) = NatText(Len(names))
               /\ Len(accesses) = Len(uses)
               /\ \A k \in 1 .. Len(accesses) :
                      /\ accesses[k].kind = uses[k].kind
                      /\ accesses[k].value = FirstIndex(names, uses[k].name)
                      /\ accesses[k].value >= 0
                      /\ accesses[k].value < Len(names)
               /\ \A j, k \in 1 .. Len(accesses) :
                      (accesses[j].value = accesses[k].value) <=> (uses[j].name = uses[k].name)

\* a listing of x = 1; y = 2; w = x + y: x has the address 0 in its store
\* and in its fetch, y has 1, w has 2, and Datasize is 3
C19_Witness ==
    /\ stage = "listing"
    /\ generated.status = "ok"
    /\ IdentifierUses(tree)
           = <<Use(<<"x">>, "Store"), Use(<<"y">>, "Store"), Use(<<"x">>, "Fetch"),
               Use(<<"y">>, "Fetch"), Use(<<"w">>, "Store")>>
    /\ HeaderDatasize(generated.code) = <<"3">>
    /\ [k \in 1 .. 5 |-> SelectSeq(generated.instructions, IsFetchOrStore)[k].value]
           = <<0, 1, 0, 1, 2>>

----------------------------------------------------------------------------
(* The virtual machine on the text of a listing: main of
   src/virtual_machine_interpreter hands the lines of any file to
   VirtualMachineInterpreter::interpret.  program is that text. *)

ListingHeader0 == <<"D", "a", "t", "a", "s", "i", "z", "e", ":", SP, "0", SP,
                    "S", "t", "r", "i", "n", "g", "s", ":", SP, "0", NL>>

ListingHeader1 == <<"D", "a", "t", "a", "s", "i", "z", "e", ":", SP, "1", SP,
                    "S", "t", "r", "i", "n", "g", "s", ":", SP, "0", NL>>

\* instructions that take a value from the stack, at address 0
PoppingLines ==
    { <<"0", SP, "p", "r", "t", "i", NL>>,
      <<"0", SP, "p", "r", "t", "c", NL>>,
      <<"0", SP, "p", "r", "t", "s", NL>>,
      <<"0", SP, "n", "e", "g", NL>>,
      <<"0", SP, "n", "o", "t", NL>>,
      <<"0", SP, "a", "d", "d", NL>>,
      <<"0", SP, "l", "t", NL>>,
      <<"0", SP, "s", "t", "o", "r", "e", SP, "[", "0", "]", NL>>,
      <<"0", SP, "j", "z", SP, "(", "4", ")", SP, "5", NL>> }

\* instructions that put a value on the stack, at address 0
PushingLines ==
    { <<"0", SP, "p", "u", "s", "h", SP, "1", NL>>,
      <<"0", SP, "f", "e", "t", "c", "h", SP, "[", "0", "]", NL>> }

\* listings whose execution does not come to a halt: no instruction at all,
\* a push and nothing after it, a jz as the last instruction whose condition
\* is not 0, and a jmp into the immediate of push 100
EndlessListings ==
    { ListingHeader0,
      ListingHeader0 \o
        <<"0", SP, "p", "u", "s", "h", SP, "1", NL>>,
      ListingHeader0 \o
        <<"0", SP, "p", "u", "s", "h", SP, "1", NL, "5", SP, "j", "z", SP, "(", "0",
          ")", SP, "1", "0", NL>>,
      ListingHeader0 \o
        <<"0", SP, "j", "m", "p", SP, "(", "5", ")", SP, "6", NL, "5", SP, "p", "u",
          "s", "h", SP, "1", "0", "0", NL, "1", "0", SP, "h", "a", "l", "t", NL>> }

\* a listing over three data slots: it prints slot 1 before and after the
\* store of 5 to it, then the slots 2 and 0, which it never stores to
DataListings ==
    { <<"D", "a", "t", "a", "s", "i", "z", "e", ":", SP, "3", SP, "S", "t", "r", "i", "n",
  "g", "s", ":", SP, "0", NL>> \o
        <<"0", SP, "f", "e", "t", "c", "h", SP, "[", "1", "]", NL, "5", SP, "p", "r",
          "t", "i", NL, "6", SP, "p", "u", "s", "h", SP, "5", NL, "1", "1", SP, "s",
          "t", "o", "r", "e", SP, "[", "1", "]", NL, "1", "6", SP, "f", "e", "t", "c",
          "h", SP, "[", "1", "]", NL, "2", "1", SP, "p", "r", "t", "i", NL, "2", "2",
          SP, "f", "e", "t", "c", "h", SP, "[", "2", "]", NL, "2", "7", SP, "p", "r",
          "t", "i", NL, "2", "8", SP, "f", "e", "t", "c", "h", SP, "[", "0", "]", NL,
          "3", "3", SP, "p", "r", "t", "i", NL, "3", "4", SP, "h", "a", "l", "t", NL>> }

\* a listing with instructions after its first halt
HaltListings ==
    { ListingHeader0 \o
        <<"0", SP, "p", "u", "s", "h", SP, "7", NL, "5", SP, "p", "r", "t", "i", NL,
          "6", SP, "h", "a", "l", "t", NL, "7", SP, "p", "u", "s", "h", SP, "8", NL,
          "1", "2", SP, "p", "r", "t", "i", NL, "1", "3", SP, "h", "a", "l", "t", NL>> }

\* a popping instruction on the empty stack and after one push; a pushing
\* instruction alone, and in a loop that never pops.  read_instruction does
\* not look at the address column of a line.
VmListings ==
    {ListingHeader1 \o l \o <<"9", SP, "h", "a", "l", "t", NL>> : l \in PoppingLines}
    \cup {ListingHeader1 \o <<"0", SP, "p", "u", "s", "h", SP, "7", NL>>
              \o <<"5">> \o Tail(l) \o <<"1", "4", SP, "h", "a", "l", "t", NL>>
            : l \in PoppingLines \ {<<"0", SP, "p", "r", "t", "s", NL>>,
                                    <<"0", SP, "j", "z", SP, "(", "4", ")", SP, "5", NL>>}}
    \cup {ListingHeader1 \o l \o <<"5", SP, "h", "a", "l", "t", NL>> : l \in PushingLines}
    \cup {ListingHeader1 \o l \o <<"5", SP, "j", "m", "p", SP, "(", "-", "6", ")", SP, "0", NL>>
              \o <<"1", "0", SP, "h", "a", "l", "t", NL>>
            : l \in PushingLines}
    \cup {ListingHeader0 \o <<"0", SP, "h", "a", "l", "t", NL>>}
    \cup EndlessListings
    \cup HaltListings
    \cup DataListings

VmInit ==
    /\ program \in VmListings
    /\ overflow_checks \in BOOLEAN
    /\ stage = "listing"
    /\ NothingDone

\* VirtualMachineInterpreter::interpret up to the loop of execute
AssembleListing ==
    /\ stage = "listing"
    /\ LET r == assemble(Lines(program))
       IN  /\ pc' = r.vm.pc
           /\ sp' = r.vm.sp
           /\ byte_code' = r.vm.byte_code
           /\ string_pool' = r.vm.string_pool
           /\ data' = r.vm.data
           /\ stack' = r.vm.stack
           /\ vm_status' = IF r.status = "ok" THEN "running" ELSE r.status
    /\ stage' = "machine"
    /\ UNCHANGED <<program, overflow_checks, scanned, parsed, interpreted, generated,
                   out, steps, executed>>

\* a loop of execute that halt does not leave
ExecuteTurnPastHalt ==
    /\ stage = "machine"
    /\ vm_status \in {"running", "halted"}
    /\ LET r == execute_step(Machine, overflow_checks)
       IN  /\ pc' = r.vm.pc
           /\ sp' = r.vm.sp
           /\ data' = r.vm.data
           /\ stack' = r.vm.stack
           /\ vm_status' = r.status
           /\ out' = out \o r.written
    /\ steps' = steps + 1
    /\ executed' = [address |-> pc,
                    opcode |-> IF pc >= 0 /\ pc < Len(byte_code) THEN byte_code[pc + 1]
                               ELSE -1,
                    condition |-> IF sp >= 1 THEN stack[sp] ELSE 0]
    /\ UNCHANGED <<program, overflow_checks, stage, scanned, parsed, interpreted,
                   generated, byte_code, string_pool>>

\* one turn of the loop of execute; the loop has no limit of its own, every
\* listing above ends within STACK_SIZE turns of its loop
ExecuteTurn ==
    /\ stage = "machine"
    /\ vm_status = "running"
    /\ LET r == execute_step(Machine, overflow_checks)
       IN  /\ pc' = r.vm.pc
           /\ sp' = r.vm.sp
           /\ data' = r.vm.data
           /\ stack' = r.vm.stack
           /\ vm_status' = r.status
           /\ out' = out \o r.written
    /\ steps' = steps + 1
    /\ executed' = [address |-> pc,
                    opcode |-> IF pc >= 0 /\ pc < Len(byte_code) THEN byte_code[pc + 1]
                               ELSE -1,
                    condition |-> IF sp >= 1 THEN stack[sp] ELSE 0]
    /\ UNCHANGED <<program, overflow_checks, stage, scanned, parsed, interpreted,
                   generated, byte_code, string_pool>>

VmNext == (AssembleListing \/ ExecuteTurn) /\ UNCHANGED <<lexvars, tokvars, astvars>>

InitVm == VmInit /\ LexIdle /\ TokIdle /\ AstIdle

SpecVm == InitVm /\ [][VmNext]_vars

\* the opcodes that write stack[sp] and the opcodes that read stack[sp - 1]
PushOpcodes == {FETCH, PUSH}

PopOpcodes ==
    {STORE, JZ, ADD, SUB, MUL, DIV, MOD, LT, GT, LE, GE, EQ, NE, AND, OR, NEG, NOT,
     PRTC, PRTI, PRTS}

\* the opcode at pc
NextOpcode ==
    IF stage = "machine" /\ vm_status = "running" /\ pc >= 0 /\ pc < Len(byte_code)
    THEN byte_code[pc + 1]
    ELSE -1

\* C20: a push onto the full stack and a pop from the empty stack make
\* interpret return a VirtualMachineError
C20_StackErrorIsReturned ==
    [][ ((NextOpcode \in PushOpcodes /\ sp = STACK_SIZE)
            \/ (NextOpcode \in PopOpcodes /\ sp = 0))
        => vm_status' = "err" ]_vars

----------------------------------------------------------------------------
(* Programs without an instruction to execute *)

\* the 24 opcodes of the machine
Opcodes == PushOpcodes \cup PopOpcodes \cup {JMP, HALT}

\* C21: interpret returns an error when the program has no instructions,
\* when the byte fetched as opcode is none of the 24 opcodes, and when
\* execution has come past the last byte of the code
C21_NoInstructionIsError ==
    [][ (/\ stage = "machine"
         /\ vm_status = "running"
         /\ \/ byte_code = <<>>
            \/ pc >= Len(byte_code)
            \/ NextOpcode \notin Opcodes)
        => vm_status' = "err" ]_vars

----------------------------------------------------------------------------
(* Arithmetic through the toolchain: the programs `print((a) op (b));`,
   `print(-(a));` and `print(!(a));`, lexed, parsed, interpreted on the tree,
   compiled and run on the virtual machine *)

\* operands: the text, the tree the parser builds for it, and its value
\* (1 / 0 has none)
ArithOperands ==
    {[text |->
          <<"0">>,
      node |-> IntegerNode(0),
      defined |-> TRUE, value |-> 0],
     [text |->
          <<"1">>,
      node |-> IntegerNode(1),
      defined |-> TRUE, value |-> 1],
     [text |->
          <<"2">>,
      node |-> IntegerNode(2),
      defined |-> TRUE, value |-> 2],
     [text |->
          <<"7">>,
      node |-> IntegerNode(7),
      defined |-> TRUE, value |-> 7],
     [text |->
          <<"-", "7">>,
      node |-> Node("Negate", IntegerNode(7), Nil),
      defined |-> TRUE, value |-> 0 - 7],
     [text |->
          <<"-", "2">>,
      node |-> Node("Negate", IntegerNode(2), Nil),
      defined |-> TRUE, value |-> 0 - 2],
     [text |->
          <<"-", "1">>,
      node |-> Node("Negate", IntegerNode(1), Nil),
      defined |-> TRUE, value |-> 0 - 1],
     [text |->
          <<"2", "1", "4", "7", "4", "8", "3", "6", "4", "7">>,
      node |-> IntegerNode(I32Max),
      defined |-> TRUE, value |-> I32Max],
     [text |->
          <<"-", "2", "1", "4", "7", "4", "8", "3", "6", "4", "7", SP, "-", SP, "1">>,
      node |-> Node("Subtract", Node("Negate", IntegerNode(I32Max), Nil), IntegerNode(1)),
      defined |-> TRUE, value |-> I32Min],
     [text |->
          <<"1", SP, "/", SP, "0">>,
      node |-> Node("Divide", IntegerNode(1), IntegerNode(0)),
      defined |-> FALSE, value |-> 0]}

\* print((a) op (b));
BinaryProgram(a, op, b) ==
    <<"p", "r", "i", "n", "t", "(", "(">> \o a.text \o <<")", SP>> \o op.text
        \o <<SP, "(">> \o b.text \o <<")", ")", ";">>

\* print(-(a)); and print(!(a));
UnaryProgram(sign, a) ==
    <<"p", "r", "i", "n", "t", "(", sign, "(">> \o a.text \o <<")", ")", ";">>

ArithPrograms ==
    {BinaryProgram(a, op, b) : a \in ArithOperands, op \in ExprOperators, b \in ArithOperands}
    \cup {UnaryProgram(sign, a) : sign \in {"-", "!"}, a \in ArithOperands}

ArithInit ==
    /\ program \in ArithPrograms
    /\ overflow_checks \in BOOLEAN
    /\ stage = "source"
    /\ NothingDone

InitArith == ArithInit /\ LexIdle /\ TokIdle /\ AstIdle

SpecArith == InitArith /\ [][PipeNext]_vars

\* the expression a program prints (the print statement is a Sequence of
\* its own inside the Sequence of the program), and its operands
Printed == parsed.node.rhs.rhs.lhs

LeftOperand == CHOOSE o \in ArithOperands : o.node = Printed.lhs

RightOperand == CHOOSE o \in ArithOperands : o.node = Printed.rhs

\* the tree of the program is the tree of a binary expression over two
\* operands of the table
IsBinary(kinds) ==
    /\ parsed.ok
    /\ Printed.kind \in kinds
    /\ \E o \in ArithOperands : o.node = Printed.lhs
    /\ \E o \in ArithOperands : o.node = Printed.rhs

\* the tree has been interpreted
Interpreted == stage \in {"interpreted", "listing", "machine"}

\* C22: div and mod with 0 on top of the stack make the virtual machine
\* return a VirtualMachineError, and Divide and Mod with a right operand of
\* 0 make the AST interpreter return an error value
C22_DivisionByZeroIsError ==
    (/\ IsBinary({"Divide", "Mod"})
     /\ LeftOperand.defined
     /\ RightOperand.defined
     /\ RightOperand.value = 0)
        => /\ Interpreted => interpreted.status = "err"
           /\ (stage = "machine" /\ executed.opcode \in {DIV, MOD}) => vm_status = "err"

\* the value add, sub, mul and neg have modulo 2^32 in two's complement
WrappedResult(opcode, a, b) ==
    CASE opcode = ADD -> i32_add(a, b).value
      [] opcode = SUB -> i32_sub(a, b).value
      [] opcode = MUL -> i32_mul(a, b).value
      [] opcode = NEG -> i32_neg(b).value

\* C23: add, sub, mul and neg of the virtual machine store the result
\* modulo 2^32 in two's complement, also when the operation overflows, and
\* execution continues with the next instruction
C23_ArithmeticWraps ==
    [][ (/\ stage = "machine"
         /\ vm_status = "running"
         /\ \/ NextOpcode \in {ADD, SUB, MUL} /\ sp >= 2
            \/ NextOpcode = NEG /\ sp >= 1)
        => /\ vm_status' = "running"
           /\ pc' = pc + 1
           /\ sp' = IF NextOpcode = NEG THEN sp ELSE sp - 1
           /\ stack'[sp'] = WrappedResult(NextOpcode,
                                          IF sp >= 2 THEN stack[sp - 1] ELSE 0, stack[sp]) ]_vars

NegAbs(a) == IF a < 0 THEN a ELSE 0 - a

\* q and r are the quotient rounded toward 0 and the remainder of a by b
TruncatesTowardZero(a, b, q, r) ==
    /\ a = q * b + r
    /\ NegAbs(r) > NegAbs(b)
    /\ r = 0 \/ ((r < 0) <=> (a < 0))

\* the operands are defined, the divisor is not 0, and each back end has
\* produced the quotient (for Divide) or the remainder (for Mod) toward 0
DivisionTruncates(a, b) ==
    LET q == i32_div(a, b)
        r == i32_rem(a, b)
        result == IF Printed.kind = "Divide" THEN q ELSE r
    IN  /\ Interpreted
            => /\ interpreted.status = "ok"
               /\ TruncatesTowardZero(a, b, q, r)
               /\ interpreted.out = StrBytes(IntText(result))
        /\ (stage = "machine" /\ executed.opcode \in {DIV, MOD})
            => /\ vm_status = "running"
               /\ TruncatesTowardZero(a, b, q, r)
               /\ stack[sp] = result

\* C24: for b # 0, div and mod of the virtual machine and Divide and Mod of
\* the AST interpreter give the quotient rounded toward 0 and the remainder
\* with the sign of a, with a = q * b + r
C24_DivisionTruncates ==
    (/\ IsBinary({"Divide", "Mod"})
     /\ LeftOperand.defined
     /\ RightOperand.defined
     /\ RightOperand.value # 0)
        => DivisionTruncates(LeftOperand.value, RightOperand.value)

----------------------------------------------------------------------------
(* The end of a run *)

\* C25: execute returns success only by executing a halt opcode; executing
\* halt ends the run with success and writes nothing; after halt no
\* instruction is executed and nothing more is written
C25_SuccessOnlyByHalt ==
    [][ /\ (vm_status' = "halted" /\ vm_status # "halted")
            => (vm_status = "running" /\ NextOpcode = HALT)
        /\ NextOpcode = HALT => (vm_status' = "halted" /\ out' = out)
        /\ vm_status = "halted"
            => (vm_status' = "halted" /\ out' = out /\ steps' = steps /\ pc' = pc) ]_vars

\* a run that has written 7 and has halted before a push and a prti that
\* would write 8
C25_Witness ==
    /\ vm_status = "halted"
    /\ executed.opcode = HALT
    /\ out = <<55>>
    /\ pc < Len(byte_code)
    /\ byte_code[pc + 1] = PUSH

----------------------------------------------------------------------------
(* The data area *)

\* the immediate after the opcode at pc
NextOperand == from_ne_bytes(SubSeq(byte_code, pc + 2, pc + 5))

\* C26: the data area has exactly Datasize slots, all 0 before the first
\* instruction runs; its length never changes and a slot changes only in a
\* store to its index, to the value on top of the stack; a fetch of a slot
\* pushes the value of the slot and is no error, so a fetch before any
\* store to the slot pushes 0
C26_DataArea ==
    [][ /\ (stage = "listing" /\ vm_status' = "running")
            => /\ NatText(Len(data')) = HeaderDatasize(program)
               /\ \A i \in 1 .. Len(data') : data'[i] = 0
        /\ stage = "machine"
            => /\ Len(data') = Len(data)
               /\ \A i \in 1 .. Len(data) :
                      data'[i] # data[i]
                          => /\ NextOpcode = STORE
                             /\ NextOperand = i - 1
                             /\ data'[i] = stack[sp]
        /\ (/\ NextOpcode = FETCH
            /\ NextOperand \in 0 .. Len(data) - 1
            /\ sp < STACK_SIZE)
            => /\ vm_status' = "running"
               /\ sp' = sp + 1
               /\ stack'[sp'] = data[NextOperand + 1] ]_vars

\* the end of the listing over three slots: slot 1 printed 0 before its
\* store and 5 after it, the slots 2 and 0 printed 0
C26_Witness ==
    /\ vm_status = "halted"
    /\ data = <<0, 5, 0>>
    /\ out = <<48, 53, 48, 48>>

-----------------------------------------------------------------------------
(* Reading an identifier that has no binding *)

\* the leaf interpret_body evaluates first: a Sequence runs its left child
\* when it has one, an Assign evaluates its right child, every other node
\* its left child
RECURSIVE FirstEvaluated(_)
FirstEvaluated(node) ==
    IF node = Nil THEN Nil
    ELSE IF node.kind = "Sequence"
         THEN FirstEvaluated(IF node.lhs = Nil THEN node.rhs ELSE node.lhs)
    ELSE IF node.kind = "Assign" THEN FirstEvaluated(node.rhs)
    ELSE IF node.lhs = Nil THEN node
    ELSE FirstEvaluated(node.lhs)

-----------------------------------------------------------------------------
(* && and || *)

\* the kinds and the operands of a sequence of instructions
Emitted(instructions) ==
    [i \in 1 .. Len(instructions) |-> <<instructions[i].kind, instructions[i].value>>]

\* what generate_body emits for an operand of the table
OperandCode(o) == Emitted(generate_body(NewGenerator, o.node).G.instructions)

\* 1 when (a != 0 and b != 0) for And, when (a != 0 or b != 0) for Or, and
\* 0 otherwise
Truth(kind, a, b) ==
    IF kind = "And" THEN (IF a # 0 /\ b # 0 THEN 1 ELSE 0)
    ELSE (IF a # 0 \/ b # 0 THEN 1 ELSE 0)

\* the run of the virtual machine has come to its end
VmEnded == stage = "machine" /\ vm_status \in {"halted", "err", "panic"}

\* C28: && and || never short-circuit.  The listing of `print((a) op (b));`
\* is the code of a, the code of b, one and / or, prti and halt, with no
\* jump; in both back ends an operand that fails makes the run fail whatever
\* the other operand is, and with two operands that have a value the output
\* is 1 exactly when (a != 0 and b != 0) for And, (a != 0 or b != 0) for Or,
\* and 0 otherwise
C28_NoShortCircuit ==
    IsBinary({"And", "Or"}) =>
        LET a == LeftOperand
            b == RightOperand
            result == StrBytes(IntText(Truth(Printed.kind, a.value, b.value)))
        IN  /\ stage \in {"listing", "machine"} =>
                /\ generated.status = "ok"
                /\ Emitted(generated.instructions) =
                       OperandCode(a) \o OperandCode(b)
                           \o <<<<Printed.kind, 0>>, <<"Prti", 0>>, <<"Halt", 0>>>>
            /\ Interpreted =>
                IF a.defined /\ b.defined
                THEN interpreted = [status |-> "ok", out |-> result]
                ELSE interpreted.status # "ok" /\ interpreted.out = <<>>
            /\ VmEnded =>
                IF a.defined /\ b.defined
                THEN vm_status = "halted" /\ out = result
                ELSE vm_status # "halted" /\ out = <<>>

\* both back ends have run `print((0) && (1 / 0));`: the left operand
\* decides the result, and the right operand has still been evaluated
C28_Witness ==
    /\ IsBinary({"And"})
    /\ LeftOperand.value = 0
    /\ ~RightOperand.defined
    /\ VmEnded
    /\ executed.opcode = DIV
    /\ interpreted.status = "panic"

-----------------------------------------------------------------------------
(* The jump convention of the emitter and of the virtual machine *)

\* the instruction lines of a listing, each split into its fields
InstructionLines(text) ==
    LET ls == Lines(text)
        first == 2 + read_header(ls[1]).string_size
    IN  [n \in 1 .. (Len(ls) + 1) - first |-> SplitWhitespace(ls[n + first - 1])]

\* the set of the elements of a sequence
Elements(s) == {s[n] : n \in 1 .. Len(s)}

\* the lines of a listing that hold a jz or a jmp
JumpLines(text) ==
    {line \in Elements(InstructionLines(text)) : line[2] \in {Mnemonic("Jz"), Mnemonic("Jump")}}

\* the address a line of a listing is printed with, and the absolute
\* address printed as the last field of a jump
PrintedAddress(line) == ParseUsize(line[1]).value

PrintedTarget(line) == ParseUsize(line[4]).value

\* the addresses of the byte code at which an instruction starts
RECURSIVE InstructionStarts(_, _)
InstructionStarts(code, a) ==
    IF a >= Len(code) THEN {}
    ELSE {a} \cup InstructionStarts(code,
                      a + (IF code[a + 1] \in {FETCH, STORE, PUSH, JMP, JZ} THEN 5 ELSE 1))

\* where execute continues after the jump at address a when it takes it: a
\* jmp, or a jz that pops 0
Continues(a) ==
    execute_step([Machine EXCEPT !.pc = a, !.sp = 1, !.stack = <<0>>], overflow_checks).vm.pc

\* C30: the emitter and the virtual machine use the same jump convention.
\* For every jz and jmp of a generated listing, the absolute address printed
\* as its last field is the address some instruction of the listing is
\* printed with; once the listing is assembled, it is the address at which
\* the virtual machine continues when it takes that jump, and an
\* instruction of the byte code starts there; and every jump a run takes
\* lands on the address printed for it
C30_SameJumpConvention ==
    /\ (stage = "listing" /\ generated.status = "ok") =>
           \A line \in JumpLines(generated.code) :
               \E target \in Elements(InstructionLines(generated.code)) :
                   PrintedAddress(target) = PrintedTarget(line)
    /\ (stage = "machine" /\ vm_status = "running" /\ steps = 0) =>
           \A line \in JumpLines(generated.code) :
               /\ byte_code[PrintedAddress(line) + 1] \in {JMP, JZ}
               /\ Continues(PrintedAddress(line)) = PrintedTarget(line)
               /\ PrintedTarget(line) \in InstructionStarts(byte_code, 0)
    /\ JumpTaken =>
           \E line \in JumpLines(generated.code) :
               /\ PrintedAddress(line) = executed.address
               /\ PrintedTarget(line) = pc

\* a run has taken the jz at the head of a loop, forwards over the jmp that
\* closes the loop, to the start of an instruction
C30_Witness ==
    /\ JumpTaken
    /\ executed.opcode = JZ
    /\ Immediate(executed.address) > 0
    /\ pc \in InstructionStarts(byte_code, 0)
    /\ \E n \in 1 .. Len(generated.instructions) :
           generated.instructions[n].kind = "Jump" /\ generated.instructions[n].value < 0

-----------------------------------------------------------------------------
(* The primes program: trial division up to 100, run by both back ends *)

\* the tree of tests::test_primes
PrimesTree ==
    Node("Sequence",
      Node("Sequence",
        Node("Sequence",
          Node("Sequence",
            Node("Sequence",
              Nil,
              Node("Assign", IdentifierNode(<<"c", "o", "u", "n", "t">>), IntegerNode(1))),
            Node("Assign", IdentifierNode(<<"n">>), IntegerNode(1))),
          Node("Assign", IdentifierNode(<<"l", "i", "m", "i", "t">>), IntegerNode(100))),
        Node("While",
          Node("Less",
            IdentifierNode(<<"n">>),
            IdentifierNode(<<"l", "i", "m", "i", "t">>)),
          Node("Sequence",
            Node("Sequence",
              Node("Sequence",
                Node("Sequence",
                  Node("Sequence",
                    Nil,
                    Node("Assign", IdentifierNode(<<"k">>), IntegerNode(3))),
                  Node("Assign", IdentifierNode(<<"p">>), IntegerNode(1))),
                Node("Assign",
                  IdentifierNode(<<"n">>),
                  Node("Add", IdentifierNode(<<"n">>), IntegerNode(2)))),
              Node("While",
                Node("And",
                  Node("LessEqual",
                    Node("Multiply", IdentifierNode(<<"k">>), IdentifierNode(<<"k">>)),
                    IdentifierNode(<<"n">>)),
                  IdentifierNode(<<"p">>)),
                Node("Sequence",
                  Node("Sequence",
                    Nil,
                    Node("Assign",
                      IdentifierNode(<<"p">>),
                      Node("NotEqual",
                        Node("Multiply",
                          Node("Divide", IdentifierNode(<<"n">>), IdentifierNode(<<"k">>)),
                          IdentifierNode(<<"k">>)),
                        IdentifierNode(<<"n">>)))),
                  Node("Assign",
                    IdentifierNode(<<"k">>),
                    Node("Add", IdentifierNode(<<"k">>), IntegerNode(2)))))),
            Node("If",
              IdentifierNode(<<"p">>),
              Node("If",
                Node("Sequence",
                  Node("Sequence",
                    Nil,
                    Node("Sequence",
                      Node("Sequence", Nil, Node("Prti", IdentifierNode(<<"n">>), Nil)),
                      Node("Prts",
                        StringNode(<<SP, "i", "s", SP, "p", "r", "i", "m", "e", NL>>),
                        Nil))),
                  Node("Assign",
                    IdentifierNode(<<"c", "o", "u", "n", "t">>),
                    Node("Add",
                      IdentifierNode(<<"c", "o", "u", "n", "t">>),
                      IntegerNode(1)))),
                Nil))))),
      Node("Sequence",
        Node("Sequence",
          Node("Sequence",
            Nil,
            Node("Prts",
              StringNode(<<"T", "o", "t", "a", "l", SP, "p", "r", "i", "m", "e", "s", SP, "f", "o", "u", "n", "d", ":", SP>>),
              Nil)),
          Node("Prti", IdentifierNode(<<"c", "o", "u", "n", "t">>), Nil)),
        Node("Prts", StringNode(<<NL>>), Nil)))

PrimesInit ==
    /\ tree = PrimesTree
    /\ tree_text = <<>>
    /\ tree_read = [status |-> "none", node |-> Nil]
    /\ program = <<>>
    /\ overflow_checks \in BOOLEAN
    /\ stage = "tree"
    /\ NothingDone

\* the three parts of the tree, which interpret_body runs in this order: the
\* statements before the loop, the loop, and the statements after it
BeforeLoop == tree.lhs.lhs

Loop == tree.lhs.rhs

AfterLoop == tree.rhs

\* the interpreter between two steps of the program: position is "loop"
\* before a turn of the loop and "after" when the loop has ended
Interpreting(position, I) ==
    [status |-> position, out |-> I.out, global |-> I.global]

Interpreter ==
    [global |-> interpreted.global, out |-> interpreted.out, checks |-> overflow_checks,
     turns |-> MaxTurns]

\* the step r goes on to position, unless it failed, which ends interpret
GoesOn(r, position) ==
    IF r.status = "ok"
    THEN interpreted' = Interpreting(position, r.I) /\ stage' = stage
    ELSE interpreted' = [status |-> r.status, out |-> r.I.out] /\ stage' = "interpreted"

\* ASTInterpreter::interpret(&ast, &mut out) up to the loop: the left child
\* of a Sequence is run first
InterpretBeforeLoop ==
    /\ stage = "tree"
    /\ interpreted.status = "none"
    /\ GoesOn(interpret_body([global |-> <<>>, out |-> <<>>, checks |-> overflow_checks,
                              turns |-> MaxTurns], BeforeLoop), "loop")
    /\ UNCHANGED <<program, overflow_checks, scanned, parsed, generated, vmvars>>

\* one turn of the while of interpret_while: the condition and, unless its
\* value is Some(Integer(0)), the statement
InterpretTurn ==
    /\ stage = "tree"
    /\ interpreted.status = "loop"
    /\ Loop.kind = "While"
    /\ LET condition == interpret_body(Interpreter, Loop.lhs)
       IN  IF condition.status # "ok" THEN GoesOn(condition, "loop")
           ELSE IF condition.value = ValueInteger(0) THEN GoesOn(condition, "after")
           ELSE GoesOn(interpret_body(condition.I, Loop.rhs), "loop")
    /\ UNCHANGED <<program, overflow_checks, scanned, parsed, generated, vmvars>>

\* the right child of the Sequence at the root, and the return of interpret
InterpretAfterLoop ==
    /\ stage = "tree"
    /\ interpreted.status = "after"
    /\ LET r == interpret_body(Interpreter, AfterLoop)
       IN  interpreted' = [status |-> r.status, out |-> r.I.out]
    /\ stage' = "interpreted"
    /\ UNCHANGED <<program, overflow_checks, scanned, parsed, generated, vmvars>>

\* CodeGenerator::generate(&ast) on the same tree
GeneratePrimes ==
    /\ stage = "interpreted"
    /\ LET r == generate(tree)
       IN  generated' = [status |-> r.status, err |-> r.err,
                         instructions |-> r.G.instructions, code |-> r.code]
    /\ stage' = "listing"
    /\ UNCHANGED <<program, overflow_checks, scanned, parsed, interpreted, vmvars>>

\* the steps of the tools before the loop of execute
PrimesTools ==
    /\ \/ InterpretBeforeLoop
       \/ InterpretTurn
       \/ InterpretAfterLoop
       \/ GeneratePrimes
       \/ Assemble
    /\ UNCHANGED <<lexvars, tokvars, astvars>>

\* a turn of the loop of execute
PrimesExecute == ExecuteTurn /\ UNCHANGED <<lexvars, tokvars, astvars>>

PrimesNext == PrimesTools \/ PrimesExecute

InitPrimes == PrimesInit /\ LexIdle /\ TokIdle

\* a step of PrimesTools can be taken: the guards of its actions
ToolsRunning ==
    \/ stage = "tree" /\ interpreted.status \in {"none", "loop", "after"}
    \/ stage = "interpreted"
    \/ stage = "listing" /\ generated.status = "ok"

\* weak fairness of PrimesTools, with ToolsRunning for ENABLED <<PrimesTools>>_vars:
\* none of the tools stops between two steps
ToolsRunOn == []<>(~ToolsRunning) \/ []<><<PrimesTools>>_vars

\* the tools and the loop of execute run on: a step that can be taken is
\* taken
SpecPrimes ==
    InitPrimes /\ [][PrimesNext]_vars /\ ToolsRunOn /\ WF_vars(PrimesExecute)

\* the numbers the expected output of tests::test_primes lists
PrimesFound ==
    <<3, 5, 7, 11, 13, 17, 19, 23, 29, 31, 37, 41, 43, 47, 53, 59, 61, 67, 71, 73, 79,
      83, 89, 97, 101>>

IsPrime(p) == p >= 2 /\ \A d \in 2 .. p - 1 : p % d # 0

\* the lines `p is prime` of the numbers of a sequence
RECURSIVE PrimeLines(_)
PrimeLines(ps) ==
    IF ps = <<>> THEN <<>>
    ELSE StrBytes(IntText(Head(ps)) \o <<SP, "i", "s", SP, "p", "r", "i", "m", "e", NL>>)
             \o PrimeLines(Tail(ps))

\* the expected output of tests::test_primes
PrimesOutput ==
    PrimeLines(PrimesFound)
        \o StrBytes(<<"T", "o", "t", "a", "l", SP, "p", "r", "i", "m", "e", "s", SP,
                      "f", "o", "u", "n", "d", ":", SP>>
                        \o IntText(Len(PrimesFound) + 1) \o <<NL>>)

\* both back ends have come to a successful end with the expected output
PrimesDone ==
    /\ stage = "machine"
    /\ vm_status = "halted"
    /\ out = PrimesOutput
    /\ interpreted = [status |-> "ok", out |-> PrimesOutput]

\* C29: the primes program with limit 100 terminates in both back ends: the
\* AST interpreter returns and the virtual machine reaches halt, and each
\* has written the lines `p is prime` for exactly the 25 primes 3, 5, 7,
\* ..., 97, 101 in increasing order, followed by `Total primes found: 26`
C29_PrimesTerminate ==
    /\ Len(PrimesFound) = 25
    /\ \A n \in 1 .. 24 : PrimesFound[n] < PrimesFound[n + 1]
    /\ \A p \in 3 .. 101 : IsPrime(p) <=> \E n \in 1 .. 25 : PrimesFound[n] = p
    /\ <>PrimesDone

\* the virtual machine has halted after the thousands of turns the program
\* takes, and both outputs are the expected one
C29_Witness == PrimesDone /\ steps > 1000 /\ Len(out) > 300

-----------------------------------------------------------------------------
(* The evaluation stack under generated code *)

\* the opcodes that read stack[sp - 2] and stack[sp - 1]
TwoOperandOpcodes == {ADD, SUB, MUL, DIV, MOD, LT, GT, LE, GE, EQ, NE, AND, OR}

\* the opcodes that end the code of a statement or of the condition of an
\* if or a while
ClosingOpcodes == {STORE, PRTC, PRTI, PRTS, JZ, JMP, HALT}

\* C31: under a listing generated from a parsed tree the evaluation stack
\* is balanced.  sp is 0 when the run starts and after every store, prtc,
\* prti, prts, jz, jmp and halt, which is where the code of a statement
\* begins and ends (every jump target and the halt included); and an
\* instruction that pops finds its operands: sp >= 1 before it, sp >= 2
\* before an instruction with two operands
C31_StackBalanced ==
    /\ (stage = "machine" /\ vm_status = "running" /\ steps = 0) => sp = 0
    /\ (/\ stage = "machine"
        /\ vm_status \in {"running", "halted"}
        /\ steps > 0
        /\ executed.opcode \in ClosingOpcodes) => sp = 0
    /\ NextOpcode \in PopOpcodes => sp >= 1
    /\ NextOpcode \in TwoOperandOpcodes => sp >= 2

\* a run is in its second turn of a loop: the jmp at the end of the body
\* has been taken with an empty stack, and the loop goes on
C31_Witness ==
    /\ JumpTaken
    /\ executed.opcode = JMP
    /\ sp = 0
    /\ steps > 10
    /\ pc < executed.address

-----------------------------------------------------------------------------
(* The variable reads the two back ends take to be defined *)

\* the tree has been handed to generate, which has returned a listing
Generated == stage \in {"listing", "machine"} /\ generated.status = "ok"

\* nothing but a read of an identifier without a binding makes the AST
\* interpreter panic on the tree: the build has no overflow checks and the
\* tree has no Divide and no Mod
OnlyReadsPanic(t) ==
    /\ ~overflow_checks
    /\ \A n \in Subnodes(t) : n.kind \notin {"Divide", "Mod"}

-----------------------------------------------------------------------------
(* The addresses of a listing *)

\* the width of an instruction: the opcode, and the four bytes of the
\* immediate of fetch, store, push, jmp and jz
Width(kind) == IF kind \in {"Fetch", "Store", "Push", "Jump", "Jz"} THEN 5 ELSE 1

\* the addresses of the instructions of the generator
Addresses == {generated.instructions[n].address : n \in 1 .. Len(generated.instructions)}

\* C33: in every generated listing the first instruction has address 0 and
\* each following instruction has the address of the one before it plus
\* its width, 5 for fetch, store, push, jmp and jz and 1 for every other
\* instruction; the lines of the listing are printed with these addresses,
\* and they are the byte offsets at which assemble places the opcodes
C33_AddressesAreOffsets ==
    /\ Generated =>
           /\ generated.instructions[1].address = 0
           /\ \A n \in 1 .. Len(generated.instructions) - 1 :
                  generated.instructions[n + 1].address =
                      generated.instructions[n].address
                          + Width(generated.instructions[n].kind)
    /\ (stage = "listing" /\ generated.status = "ok") =>
           LET lines == InstructionLines(generated.code)
           IN  /\ Len(lines) = Len(generated.instructions)
               /\ \A n \in 1 .. Len(lines) :
                      PrintedAddress(lines[n]) = generated.instructions[n].address
    /\ (Generated /\ stage = "machine" /\ vm_status = "running" /\ steps = 0) =>
           /\ InstructionStarts(byte_code, 0) = Addresses
           /\ Len(byte_code) = HaltAddress + 1
           /\ byte_code[HaltAddress + 1] = HALT

\* the listing of a program with a loop has been assembled: instructions of
\* width 5 and of width 1, a jz and a jmp
C33_Witness ==
    /\ Generated
    /\ stage = "machine"
    /\ vm_status = "running"
    /\ steps = 0
    /\ InstructionStarts(byte_code, 0) = Addresses
    /\ HaltAddress >= 40
    /\ \E n \in 1 .. Len(generated.instructions) : generated.instructions[n].kind = "Jump"
    /\ \E n \in 1 .. Len(generated.instructions) : generated.instructions[n].kind = "Lt"

-----------------------------------------------------------------------------
(* The code of while and if *)

\* the number of instructions of the code of a node
RECURSIVE Size(_)
Size(node) ==
    IF node = Nil THEN 0
    ELSE CASE node.kind \in {"Identifier", "Integer"} -> 1
           [] node.kind = "Prts" -> 2
           [] node.kind = "Sequence" -> Size(node.lhs) + Size(node.rhs)
           [] node.kind = "Assign" -> Size(node.rhs) + 1
           [] node.kind \in {"Prti", "Prtc"} \cup UnaryKinds -> Size(node.lhs) + 1
           [] node.kind \in BinaryKinds -> Size(node.lhs) + Size(node.rhs) + 1
           [] node.kind = "While" -> Size(node.lhs) + 1 + Size(node.rhs) + 1
           [] node.kind = "If" ->
                Size(node.lhs) + 1 + Size(node.rhs.lhs)
                    + (IF node.rhs.rhs = Nil THEN 0 ELSE 1 + Size(node.rhs.rhs))
           [] OTHER -> 0

\* where the code of the While and If nodes of a tree lies when the code of
\* the tree starts at instruction s.  first is the first instruction of the
\* condition, jz and jmp are the places of the two jumps (jmp is 0 for an If
\* without else), other is the first instruction of the else branch, and
\* next the first instruction after the code of the node
RECURSIVE Layout(_, _)
Layout(node, s) ==
    IF node = Nil THEN {}
    ELSE CASE node.kind = "Sequence" ->
                Layout(node.lhs, s) \cup Layout(node.rhs, s + Size(node.lhs))
           [] node.kind = "While" ->
                LET jz == s + Size(node.lhs)
                    jmp == jz + 1 + Size(node.rhs)
                IN  {[kind |-> "While", first |-> s, jz |-> jz, jmp |-> jmp, other |-> 0,
                      next |-> jmp + 1]}
                        \cup Layout(node.rhs, jz + 1)
           [] node.kind = "If" ->
                LET jz == s + Size(node.lhs)
                    after == jz + 1 + Size(node.rhs.lhs)
                IN  IF node.rhs.rhs = Nil
                    THEN {[kind |-> "If", first |-> s, jz |-> jz, jmp |-> 0, other |-> 0,
                           next |-> after]}
                             \cup Layout(node.rhs.lhs, jz + 1)
                    ELSE {[kind |-> "IfElse", first |-> s, jz |-> jz, jmp |-> after,
                           other |-> after + 1,
                           next |-> after + 1 + Size(node.rhs.rhs)]}
                             \cup Layout(node.rhs.lhs, jz + 1)
                             \cup Layout(node.rhs.rhs, after + 1)
           [] OTHER -> {}

\* the absolute address Display prints for a jump
Target(i) == (i.address + 1) + i.value

\* the n-th instruction of the generated listing, its address, and the
\* absolute address printed as the last field of its line
InstructionAt(n) == generated.instructions[n]

AddressAt(n) == InstructionAt(n).address

PrintedTargetAt(n) == PrintedTarget(InstructionLines(generated.code)[n])

\* the listing of a parsed tree has just been generated
Listed == stage = "listing" /\ generated.status = "ok" /\ parsed.ok

\* the While nodes of the tree, with the places of their code
Loops == {w \in Layout(parsed.node, 1) : w.kind = "While"}

\* C34: for While(cond, body) the generator emits code(cond), jz,
\* code(body), jmp in this order.  The printed target of the jmp is the
\* address A of the first instruction of code(cond) and its immediate is
\* A - (address of the jmp + 1); the printed target of the jz is the address
\* of the instruction that follows the jmp.  Nested loops included
C34_WhileCode ==
    Listed =>
        \A w \in Loops :
            /\ InstructionAt(w.jz).kind = "Jz"
            /\ InstructionAt(w.jmp).kind = "Jump"
            /\ PrintedTargetAt(w.jmp) = AddressAt(w.first)
            /\ InstructionAt(w.jmp).value = AddressAt(w.first) - (AddressAt(w.jmp) + 1)
            /\ PrintedTargetAt(w.jz) = AddressAt(w.next)
            /\ Target(InstructionAt(w.jz)) = AddressAt(w.next)

\* the listing of a loop inside the body of a loop
C34_Witness ==
    /\ Listed
    /\ \E v \in Loops : \E w \in Loops :
           /\ v.jz < w.first
           /\ w.next < v.jmp
           /\ PrintedTargetAt(w.jmp) = AddressAt(w.first)
           /\ PrintedTargetAt(v.jmp) = AddressAt(v.first)

\* the If nodes of the tree, with the places of their code
Ifs == {w \in Layout(parsed.node, 1) : w.kind \in {"If", "IfElse"}}

\* C35: for an If with an else branch the generator emits code(cond), jz,
\* code(then), jmp, code(else): the printed target of the jz is the first
\* instruction of code(else) and the printed target of the jmp is the first
\* instruction after code(else).  Without an else branch it emits
\* code(cond), jz, code(then), and the printed target of the jz is the first
\* instruction after code(then).  No jump of a listing keeps the
\* placeholder immediate 0
C35_IfCode ==
    Listed =>
        /\ \A w \in Ifs :
               /\ InstructionAt(w.jz).kind = "Jz"
               /\ IF w.kind = "IfElse"
                  THEN /\ InstructionAt(w.jmp).kind = "Jump"
                       /\ PrintedTargetAt(w.jz) = AddressAt(w.other)
                       /\ Target(InstructionAt(w.jz)) = AddressAt(w.other)
                       /\ PrintedTargetAt(w.jmp) = AddressAt(w.next)
                       /\ Target(InstructionAt(w.jmp)) = AddressAt(w.next)
                  ELSE /\ PrintedTargetAt(w.jz) = AddressAt(w.next)
                       /\ Target(InstructionAt(w.jz)) = AddressAt(w.next)
        /\ \A n \in 1 .. Len(generated.instructions) :
               IsJump(InstructionAt(n)) => InstructionAt(n).value # 0

\* the listing of an if with an else branch whose then branch is itself an
\* if with an else branch
C35_Witness ==
    /\ Listed
    /\ \E v \in Ifs : \E w \in Ifs :
           /\ v.kind = "IfElse"
           /\ w.kind = "IfElse"
           /\ v.jz < w.first
           /\ w.next = v.jmp
           /\ PrintedTargetAt(v.jz) = AddressAt(v.other)

----------------------------------------------------------------------------
(* The operands of the instructions of the virtual machine *)

\* the opcodes with one operand
OneOperandOpcodes == {NEG, NOT}

\* Rust's operator of the opcode has no value for a and b: add, sub, mul
\* and neg overflow in a build with overflow checks, div and mod have a
\* divisor of 0 or overflow
OperatorPanics(opcode, a, b) ==
    CASE opcode = ADD -> overflow_checks /\ i32_add(a, b).overflow
      [] opcode = SUB -> overflow_checks /\ i32_sub(a, b).overflow
      [] opcode = MUL -> overflow_checks /\ i32_mul(a, b).overflow
      [] opcode = NEG -> overflow_checks /\ i32_neg(b).overflow
      [] opcode \in {DIV, MOD} -> DivPanics(a, b)
      [] OTHER -> FALSE

\* a op b, with a as the left operand; neg and not have the operand b only
Applied(opcode, a, b) ==
    CASE opcode \in {ADD, SUB, MUL, NEG} -> WrappedResult(opcode, a, b)
      [] opcode = DIV -> i32_div(a, b)
      [] opcode = MOD -> i32_rem(a, b)
      [] opcode = LT -> IF a < b THEN 1 ELSE 0
      [] opcode = GT -> IF a > b THEN 1 ELSE 0
      [] opcode = LE -> IF a <= b THEN 1 ELSE 0
      [] opcode = GE -> IF a >= b THEN 1 ELSE 0
      [] opcode = EQ -> IF a = b THEN 1 ELSE 0
      [] opcode = NE -> IF a # b THEN 1 ELSE 0
      [] opcode = AND -> IF a # 0 /\ b # 0 THEN 1 ELSE 0
      [] opcode = OR -> IF a # 0 \/ b # 0 THEN 1 ELSE 0
      [] opcode = NOT -> IF b = 0 THEN 1 ELSE 0

----------------------------------------------------------------------------
(* The shape of the trees of the parser *)

RECURSIVE IsExpression(_)

\* the trees of parse_expr: Identifier and Integer leaves, binary operators
\* over two expressions, Negate and Not over one, with no rhs
IsExpression(n) ==
    /\ n # Nil
    /\ CASE n.kind \in {"Identifier", "Integer"} -> n.lhs = Nil /\ n.rhs = Nil
         [] n.kind \in BinaryKinds -> IsExpression(n.lhs) /\ IsExpression(n.rhs)
         [] n.kind \in UnaryKinds -> IsExpression(n.lhs) /\ n.rhs = Nil
         [] OTHER -> FALSE

RECURSIVE IsStatement(_)

\* the trees of parse_stmt_list, parse_stmt and parse_prt_list: a Sequence
\* may have either child absent, every other node has the children that the
\* code generator and the AST interpreter unwrap
IsStatement(n) ==
    /\ n # Nil
    /\ CASE n.kind = "Sequence" ->
                /\ n.lhs = Nil \/ IsStatement(n.lhs)
                /\ n.rhs = Nil \/ IsStatement(n.rhs)
         [] n.kind = "Assign" ->
                /\ n.lhs # Nil
                /\ n.lhs.kind = "Identifier"
                /\ IsExpression(n.rhs)
         [] n.kind = "If" ->
                /\ IsExpression(n.lhs)
                /\ n.rhs # Nil
                /\ n.rhs.kind = "If"
                /\ IsStatement(n.rhs.lhs)
                /\ n.rhs.rhs = Nil \/ IsStatement(n.rhs.rhs)
         [] n.kind = "While" -> IsExpression(n.lhs) /\ IsStatement(n.rhs)
         [] n.kind \in {"Prtc", "Prti"} -> IsExpression(n.lhs) /\ n.rhs = Nil
         [] n.kind = "Prts" ->
                /\ n.lhs # Nil
                /\ n.lhs.kind = "String"
                /\ n.rhs = Nil
         [] OTHER -> FALSE

\* the tree reads an identifier, divides, or runs in a build with overflow
\* checks: the panics of the AST interpreter that no missing child causes
PanicsOtherwise(t) ==
    \/ overflow_checks
    \/ \E n \in Subnodes(t) : n.kind \in {"Divide", "Mod"}
    \/ \E n \in 1 .. Len(IdentifierUses(t)) : IdentifierUses(t)[n].kind = "Fetch"

\* C37: every tree parse returns has the shape of a statement: binary
\* operators have both children; Negate, Not, Prtc, Prti and Prts have an
\* lhs and no rhs; Assign has an Identifier as lhs and an expression as rhs;
\* If has a condition as lhs and an If as rhs whose lhs is present; While
\* has both children; a String occurs only as the child of Prts.  Code
\* generation and interpretation of the tree meet no missing child
C37_ParsedShape ==
    (stage \notin {"source", "tokens"} /\ parsed.ok)
        => /\ IsStatement(parsed.node)
           /\ \A n \in Subnodes(parsed.node) :
                  (n.lhs # Nil /\ n.lhs.kind = "String") => n.kind = "Prts"
           /\ \A n \in Subnodes(parsed.node) : n.rhs = Nil \/ n.rhs.kind # "String"
           /\ stage \in {"listing", "machine"} => generated.status # "panic"
           /\ (Interpreted /\ interpreted.status = "panic")
                  => PanicsOtherwise(parsed.node)

\* the tree of while(!1){if(1){}else;}: a Not, an If with both clauses, an
\* empty block, interpreted and compiled
C37_Witness ==
    /\ stage = "listing"
    /\ parsed.ok
    /\ generated.status = "ok"
    /\ interpreted.status = "ok"
    /\ parsed.node =
           Node("Sequence", Nil,
                Node("While", Node("Not", IntegerNode(1), Nil),
                     Node("Sequence", Nil,
                          Node("If", IntegerNode(1),
                               Node("If", Node("Sequence", Nil, Nil),
                                    Node("Sequence", Nil, Nil))))))

----------------------------------------------------------------------------
(* Tokens after the statements of a program *)

MaxLeading == 2

\* nothing, and tokens that start no statement
StrayTokens ==
    {<<>>,
     <<"}">>,
     <<")">>,
     <<"e", "l", "s", "e">>,
     <<"1">>}

StrayTrailers == {<<>>, <<"p", "r", "i", "n", "t", "(", "x", ")", ";">>}

\* statements, then a token that starts no statement, then a statement
StrayPrograms ==
    {StmtListText(sts) \o stray \o <<SP>> \o z :
         sts \in UNION {[1..n -> StmtCases] : n \in 0..MaxLeading},
         stray \in StrayTokens, z \in StrayTrailers}

StrayInit ==
    /\ program \in StrayPrograms
    /\ overflow_checks = FALSE
    /\ stage = "source"
    /\ NothingDone

InitStray == StrayInit /\ LexIdle /\ TokIdle /\ AstIdle

SpecStray == InitStray /\ [][StmtsNext]_vars

\* the token parse has not consumed when it returns
Unconsumed == parse(scanned.tokens).P.next_token

\* C38: parse returns a tree only when the whole token sequence was consumed
\* up to End_of_input: a token that starts no statement and stands at top
\* level before End_of_input makes parse return a syntax error, the tokens
\* after it are not silently ignored
C38_WholeInputParsed ==
    (stage = "tree" /\ parsed.ok) => Unconsumed.kind = "EndOfInput"

----------------------------------------------------------------------------
(* An if in the then clause of an if *)

Else == <<SP, "e", "l", "s", "e", SP>>

\* `if a if b s1 else s2`, `if a if b s1 else s2 else s3`,
\* `if a if b if c s1 else s2` and `if a while b if c s1 else s2`, each with
\* the tree in which an else belongs to the nearest if before it that has
\* none
DanglingCases ==
    {[text |-> <<"i", "f">> \o a.text \o IfCase(b, s1, s2).text,
      node |-> Node("If", a.node, Node("If", IfCase(b, s1, s2).node, Nil))] :
         a \in IfConditions, b \in IfConditions, s1 \in IfClauses, s2 \in IfClauses}
    \cup
    {[text |-> <<"i", "f">> \o a.text \o IfCase(b, s1, s2).text \o Else \o s3.text,
      node |-> Node("If", a.node, Node("If", IfCase(b, s1, s2).node, s3.node))] :
         a \in IfConditions, b \in IfConditions, s1 \in IfClauses, s2 \in IfClauses,
         s3 \in IfClauses}
    \cup
    {[text |-> <<"i", "f">> \o a.text \o <<"i", "f">> \o b.text
                   \o IfCase(c, s1, s2).text,
      node |-> Node("If", a.node,
                    Node("If",
                         Node("If", b.node, Node("If", IfCase(c, s1, s2).node, Nil)),
                         Nil))] :
         a \in IfConditions, b \in IfConditions, c \in IfConditions,
         s1 \in IfClauses, s2 \in IfClauses}
    \cup
    {[text |-> <<"i", "f">> \o a.text \o <<"w", "h", "i", "l", "e">> \o b.text
                   \o IfCase(c, s1, s2).text,
      node |-> Node("If", a.node,
                    Node("If", Node("While", b.node, IfCase(c, s1, s2).node), Nil))] :
         a \in IfConditions, b \in IfConditions, c \in IfConditions,
         s1 \in IfClauses, s2 \in IfClauses}

DanglingInit ==
    /\ \E c \in DanglingCases : program = c.text
    /\ overflow_checks = FALSE
    /\ stage = "source"
    /\ NothingDone

InitDangling == DanglingInit /\ LexIdle /\ TokIdle /\ AstIdle

SpecDangling == InitDangling /\ [][IfNext]_vars

\* C39: an else belongs to the nearest if before it that has no else yet:
\* `if (a) if (b) s1 else s2` is parsed as
\* If(a, If(If(b, If(s1, s2)), None)), the outer If has no else branch
C39_DanglingElse ==
    stage = "tree" =>
        \A c \in DanglingCases :
            program = c.text => parsed.ok /\ parsed.node = c.node

\* if(x) if(x<2) x=1; else ; : the outer If has no else, the inner If has
\* the empty statement as its else
C39_Witness ==
    /\ stage = "tree"
    /\ program = <<"i", "f", "(", "x", ")", "i", "f", "(", "x", "<", "2", ")", SP,
                   "x", "=", "1", ";", SP, "e", "l", "s", "e", SP, ";">>
    /\ parsed.ok
    /\ parsed.node.kind = "If"
    /\ parsed.node.lhs = IdentifierNode(<<"x">>)
    /\ parsed.node.rhs.rhs = Nil
    /\ parsed.node.rhs.lhs.kind = "If"
    /\ parsed.node.rhs.lhs.rhs.rhs = Node("Sequence", Nil, Nil)

----------------------------------------------------------------------------
(* Reads of a name before the code of an assignment to it *)

\* some read of a name comes, in the walk of the tree, before every store to
\* that name
ReadsBeforeStore(t) ==
    LET uses == IdentifierUses(t)
    IN  \E n \in 1 .. Len(uses) :
            /\ uses[n].kind = "Fetch"
            /\ \A m \in 1 .. n - 1 :
                   ~(uses[m].kind = "Store" /\ uses[m].name = uses[n].name)

\* C40: for Assign(x, e) the code of e is emitted before x gets an address:
\* when e reads x and no Assign to x was generated before, as in the program
\* x = x + 1;, generate returns a CodeGenerationError; a name is readable
\* only after the store of an earlier Assign to it has been emitted
C40_AssignAfterValue ==
    (stage \in {"listing", "machine"} /\ parsed.ok)
        => /\ ReadsBeforeStore(parsed.node)
               => /\ generated.status = "err"
                  /\ generated.err = "unknown identifier"
                  /\ generated.code = <<>>
           /\ generated.status = "ok"
               => \A n \in 1 .. Len(generated.instructions) :
                      InstructionAt(n).kind = "Fetch"
                          => \E m \in 1 .. n - 1 :
                                 /\ InstructionAt(m).kind = "Store"
                                 /\ InstructionAt(m).value = InstructionAt(n).value
           /\ \A n \in 1 .. Len(generated.instructions) :
                  InstructionAt(n).kind = "Store"
                      => n > 1 /\ InstructionAt(n - 1).kind # "Store"

\* x = x + 1; alone: the read of x is met before x has an address
C40_Witness ==
    /\ stage = "listing"
    /\ program = <<"x", "=", "x", "+", "1", ";">>
    /\ parsed.ok
    /\ parsed.node =
           Node("Sequence", Nil,
                Node("Assign", IdentifierNode(<<"x">>),
                     Node("Add", IdentifierNode(<<"x">>), IntegerNode(1))))
    /\ generated.status = "err"
    /\ generated.err = "unknown identifier"

====
